---- MODULE Spec2Model ----
(***************************************************************************)
(* A model of dioxus-plumb's connector routing: the perfect-arrows solver  *)
(* (src/src/perfect_arrows.rs and perfect_arrows/utils.rs), the            *)
(* collision-aware flip selector and the EdgeRenderer component            *)
(* (src/src/edge_renderer.rs), and the AllEdgesWithMounted component       *)
(* (src/src/components/edge_renderer.rs, src/src/main.rs).                 *)
(*                                                                         *)
(* Numbers.  The program computes in binary floating point.  The model     *)
(* computes in decimal fixed point: a length, a ratio or a cosine v is the *)
(* integer v * SC, truncated toward zero after every multiplication and    *)
(* division.  An angle is an integer number of angle units, PI of them to  *)
(* the half turn; every angle constant of the program is a multiple of PI, *)
(* so the unit cancels.  sin, cos and atan2 are table driven.  Statements  *)
(* about exact equality of computed coordinates are therefore stated with  *)
(* a tolerance of a few units in the last place (Tol).                     *)
(*                                                                         *)
(* Specifications.  SpecArrow calls get_box_to_box_arrow on a grid of box  *)
(* pairs and option sets; SpecUtil calls get_intermediate, get_sector,     *)
(* do_rectangles_collide, modulate, segment_intersects_rect,               *)
(* get_ray_rounded_rectangle_intersection and DotGraph (GraphData::from_ast *)
(* with GraphContent) on their own;                                        *)
(* SpecPath runs generate_arrow_path_safe on pages                         *)
(* of three nodes; SpecEdge is the EdgeRenderer component with its spawned *)
(* tasks and SpecEdgeFair the same under a fair scheduler;                 *)
(* SpecAll is AllEdgesWithMounted with its effects, resize listener        *)
(* and recomputation tasks.                                                *)
(***************************************************************************)
EXTENDS Integers, Naturals, Sequences, FiniteSets, TLC

\* ------------------------------------------------------------------------
\* Fixed-point arithmetic
\* ------------------------------------------------------------------------

\* One unit of length is SC; 0.001 is 1.
SC == 1000

\* std::f64::consts::PI, in angle units (a multiple of 720, so that PI/24,
\* PI/16 and one degree are whole numbers of units).
PI == 36000

\* const PI2: f64 = PI * 2.0
PI2 == PI * 2

\* const MIN_ANGLE: f64 = PI / 24.0
MIN_ANGLE == PI \div 24

Abs(a) == IF a < 0 THEN -a ELSE a

Sign(a) == IF a < 0 THEN -1 ELSE IF a > 0 THEN 1 ELSE 0

Min2(a, b) == IF a < b THEN a ELSE b

Max2(a, b) == IF a > b THEN a ELSE b

\* clamp
Clamp(v, lo, hi) == IF v < lo THEN lo ELSE IF v > hi THEN hi ELSE v

\* |a| * |b| / SC for non-negative a, b, by partial products (no intermediate
\* exceeds the result by more than a factor SC).
MulAbs(a, b) ==
    LET ah == a \div SC
        al == a % SC
        bh == b \div SC
        bl == b % SC
    IN  ah * bh * SC + ah * bl + al * bh + (al * bl) \div SC

\* The product of two fixed-point numbers (or of a fixed-point number and a
\* quantity in any unit, giving that unit).
Mul(a, b) == Sign(a) * Sign(b) * MulAbs(Abs(a), Abs(b))

\* Three more decimal digits of a / b by long division, a >= 0, b > 0.
RECURSIVE DivDigits(_, _, _, _)
DivDigits(q, r, b, n) ==
    IF n = 0 THEN q
    ELSE DivDigits(q * 10 + (r * 10) \div b, (r * 10) % b, b, n - 1)

\* |a| * 10^n / |b|; a divisor too large for the long division is first
\* shortened together with the dividend.
RECURSIVE DivAbs(_, _, _)
DivAbs(a, b, n) ==
    IF b >= 200000000 THEN DivAbs(a \div 10, b \div 10, n)
    ELSE DivDigits(a \div b, a % b, b, n)

\* The quotient of two quantities of the same unit as a fixed-point number
\* (or of a quantity by a fixed-point number, keeping the unit).  b # 0.
Div(a, b) == Sign(a) * Sign(b) * DivAbs(Abs(a), Abs(b), 3)

\* --- exact arithmetic on wide integers -----------------------------------
\* A wide natural number is the sequence of its base-BB digits, lowest first,
\* with no leading zero digit (zero is <<>>).  The tests that decide whether
\* a ray hits a segment or a circle are evaluated on exact products, as a
\* float evaluation with ample precision would decide them.

\* Base of the digits of a wide number.
BB == 10000

\* Largest machine integer used as a quotient or a root.
IntMax == 2000000000

RECURSIVE BN(_)
BN(n) == IF n = 0 THEN <<>> ELSE <<n % BB>> \o BN(n \div BB)

RECURSIVE BTrim(_)
BTrim(p) ==
    IF p = <<>> THEN <<>>
    ELSE IF p[Len(p)] = 0 THEN BTrim(SubSeq(p, 1, Len(p) - 1))
    ELSE p

\* Carry propagation over digits that may exceed the base.
RECURSIVE BCarry(_, _)
BCarry(c, carry) ==
    IF c = <<>> THEN BN(carry)
    ELSE LET v == Head(c) + carry
         IN  <<v % BB>> \o BCarry(Tail(c), v \div BB)

BDigit(p, i) == IF i <= Len(p) THEN p[i] ELSE 0

BAdd(p, q) ==
    BTrim(BCarry([i \in 1..Max2(Len(p), Len(q)) |-> BDigit(p, i) + BDigit(q, i)], 0))

\* -1, 0, 1 as p <, =, > q.
RECURSIVE BCmpFrom(_, _, _)
BCmpFrom(p, q, i) ==
    IF i = 0 THEN 0
    ELSE IF p[i] # q[i] THEN Sign(p[i] - q[i])
    ELSE BCmpFrom(p, q, i - 1)

BCmp(p, q) ==
    IF Len(p) # Len(q) THEN Sign(Len(p) - Len(q)) ELSE BCmpFrom(p, q, Len(p))

\* p - q for p >= q.
RECURSIVE BSubFrom(_, _, _, _)
BSubFrom(p, q, i, borrow) ==
    IF i > Len(p) THEN <<>>
    ELSE LET e == p[i] - BDigit(q, i) - borrow
         IN  IF e < 0 THEN <<e + BB>> \o BSubFrom(p, q, i + 1, 1)
             ELSE <<e>> \o BSubFrom(p, q, i + 1, 0)

BSub(p, q) == BTrim(BSubFrom(p, q, 1, 0))

\* Digit k of the product before carrying: the sum of p[i] * q[k + 1 - i].
RECURSIVE BConv(_, _, _, _)
BConv(p, q, k, i) ==
    IF i > Len(p) \/ i > k THEN 0
    ELSE (IF k + 1 - i <= Len(q) THEN p[i] * q[k + 1 - i] ELSE 0) + BConv(p, q, k, i + 1)

BMul(p, q) ==
    IF p = <<>> \/ q = <<>> THEN <<>>
    ELSE BTrim(BCarry([k \in 1..(Len(p) + Len(q) - 1) |-> BConv(p, q, k, 1)], 0))

\* The largest r in lo..hi with r * r <= w (bisection).
RECURSIVE BSqrtIn(_, _, _)
BSqrtIn(w, lo, hi) ==
    IF lo >= hi THEN lo
    ELSE LET mid == lo + (hi - lo + 1) \div 2
         IN  IF BCmp(BMul(BN(mid), BN(mid)), w) <= 0
             THEN BSqrtIn(w, mid, hi)
             ELSE BSqrtIn(w, lo, mid - 1)

\* floor(sqrt(w)) as a wide number: exact below BB^4, else to eight or more
\* significant digits.
RECURSIVE BSqrt(_)
BSqrt(w) ==
    IF Len(w) <= 4 THEN BN(BSqrtIn(w, 0, BB * BB))
    ELSE LET r == BSqrt(SubSeq(w, 3, Len(w)))
         IN  IF r = <<>> THEN <<>> ELSE <<0>> \o r

\* The largest q in lo..hi with q * d <= n (bisection).
RECURSIVE BDivIn(_, _, _, _)
BDivIn(n, d, lo, hi) ==
    IF lo >= hi THEN lo
    ELSE LET mid == lo + (hi - lo + 1) \div 2
         IN  IF BCmp(BMul(BN(mid), d), n) <= 0
             THEN BDivIn(n, d, mid, hi)
             ELSE BDivIn(n, d, lo, mid - 1)

\* An upper bound of n / d from the lengths of the two numbers.
BDivHi(n, d) ==
    LET k == Len(n) - Len(d)
    IN  IF k < 0 THEN 0
        ELSE IF k = 0 THEN BB
        ELSE IF k = 1 THEN BB * BB
        ELSE IntMax

\* floor(n / d) for d # 0, as a machine integer (at most IntMax).
BDiv(n, d) == BDivIn(n, d, 0, BDivHi(n, d))

\* A wide integer: a sign s and a magnitude m.
SB(sgn, mag) == [s |-> IF mag = <<>> THEN 0 ELSE sgn, m |-> mag]

\* The exact product of two machine integers.
SProd(a, b) == SB(Sign(a) * Sign(b), BMul(BN(Abs(a)), BN(Abs(b))))

SNeg(p) == SB(-p.s, p.m)

SAdd(p, q) ==
    IF p.s = 0 THEN q
    ELSE IF q.s = 0 THEN p
    ELSE IF p.s = q.s THEN SB(p.s, BAdd(p.m, q.m))
    ELSE IF BCmp(p.m, q.m) >= 0 THEN SB(p.s, BSub(p.m, q.m))
    ELSE SB(q.s, BSub(q.m, p.m))

SSub(p, q) == SAdd(p, SNeg(q))

SMul(p, q) == SB(p.s * q.s, BMul(p.m, q.m))

\* k * p for a machine integer k.
SScale(k, p) == SB(Sign(k) * p.s, BMul(BN(Abs(k)), p.m))

\* k * n / d truncated toward zero, for a machine integer k and wide n, d # 0.
SMulDiv(k, n, d) ==
    Sign(k) * n.s * d.s * BDiv(BMul(BN(Abs(k)), n.m), d.m)

\* The points (ox + t * dx, oy + t * dy) for the parameters t = ts[i] / d.
ray_points(ox, oy, dx, dy, ts, d) ==
    [i \in 1..Len(ts) |-> [x |-> ox + SMulDiv(dx, ts[i], d), y |-> oy + SMulDiv(dy, ts[i], d)]]

\* sqrt of a non-negative fixed-point number.
Sqrt(v) == BSqrtIn(BMul(BN(v), BN(SC)), 0, IntMax \div 2)

\* ------------------------------------------------------------------------
\* Trigonometry
\* ------------------------------------------------------------------------

\* Angle units in one degree.
DEG == PI \div 180

\* sin(d degrees) * SC for d = 0..90 (entry d + 1).
SinTable ==
    <<0, 17, 35, 52, 70, 87, 105, 122, 139, 156, 174, 191, 208, 225, 242, 259,
      276, 292, 309, 326, 342, 358, 375, 391, 407, 423, 438, 454, 469, 485, 500,
      515, 530, 545, 559, 574, 588, 602, 616, 629, 643, 656, 669, 682, 695, 707,
      719, 731, 743, 755, 766, 777, 788, 799, 809, 819, 829, 839, 848, 857, 866,
      875, 883, 891, 899, 906, 914, 921, 927, 934, 940, 946, 951, 956, 961, 966,
      970, 974, 978, 982, 985, 988, 990, 993, 995, 996, 998, 999, 999, 1000, 1000>>

\* sin of an angle in the first quadrant, 0 <= a <= PI/2 (linear interpolation).
SinQ(a) ==
    LET i == a \div DEG
        f == a % DEG
    IN  IF f = 0 THEN SinTable[i + 1]
        ELSE SinTable[i + 1] + ((SinTable[i + 2] - SinTable[i + 1]) * f) \div DEG

\* sin of an angle
Sin(a) ==
    LET r == a % PI2
        q == IF r <= PI \div 2 THEN r
             ELSE IF r <= PI THEN PI - r
             ELSE IF r <= PI + PI \div 2 THEN r - PI
             ELSE PI2 - r
    IN  IF r <= PI THEN SinQ(q) ELSE -SinQ(q)

\* cos of an angle
Cos(a) == Sin(a + PI \div 2)

\* atan(k / 64) in angle units for k = 0..64 (entry k + 1).
AtanTable ==
    <<0, 179, 358, 537, 715, 893, 1071, 1248, 1425, 1601, 1776, 1950, 2124, 2296,
      2468, 2638, 2807, 2975, 3142, 3307, 3471, 3633, 3794, 3953, 4111, 4267, 4422,
      4575, 4726, 4875, 5023, 5169, 5313, 5455, 5596, 5735, 5872, 6007, 6140, 6271,
      6401, 6529, 6655, 6779, 6902, 7022, 7141, 7259, 7374, 7488, 7600, 7710, 7819,
      7926, 8031, 8135, 8237, 8338, 8437, 8534, 8630, 8725, 8818, 8910, 9000>>

\* atan(n / d) for 0 <= n <= d, d > 0: the ratio to five decimal digits, then
\* linear interpolation in the table.
AtanQ(n, d) ==
    LET z == DivAbs(n, d, 5)
        i == (z * 64) \div 100000
        f == (z * 64) % 100000
    IN  IF f = 0 THEN AtanTable[i + 1]
        ELSE AtanTable[i + 1] + ((AtanTable[i + 2] - AtanTable[i + 1]) * (f \div 100)) \div 1000

\* atan2 from q, the arc tangent of the smaller of |x|, |y| over the larger.
Atan2In(y, x, q) ==
    LET base == IF Abs(y) <= Abs(x) THEN q ELSE PI \div 2 - q
        half == IF x >= 0 THEN base ELSE PI - base
    IN  IF y < 0 THEN -half ELSE half

\* atan2(y, x), in (-PI, PI]; atan2(0, 0) = 0.
Atan2(y, x) ==
    IF x = 0 /\ y = 0 THEN 0
    ELSE Atan2In(y, x, AtanQ(Min2(Abs(x), Abs(y)), Max2(Abs(x), Abs(y))))

\* The % of two floats: the remainder with the sign of the dividend.
FRem(a, b) == Sign(a) * (Abs(a) % Abs(b))

\* floor of a fixed-point number, as a whole number.
Floor(v) == v \div SC

\* ------------------------------------------------------------------------
\* perfect_arrows/utils.rs
\* ------------------------------------------------------------------------

Pos2(px, py) == [x |-> px, y |-> py]

\* modulate_clamp that clamps an ascending output range only.
modulate_clamp_ascending(result, to_low, to_high) ==
    IF to_low < to_high
    THEN IF result < to_low THEN to_low
         ELSE IF result > to_high THEN to_high
         ELSE result
    ELSE result

\* The clamp of modulate: between to_low and to_high, whichever is lower.
modulate_clamp(result, to_low, to_high) ==
    IF to_low < to_high
    THEN IF result < to_low THEN to_low
         ELSE IF result > to_high THEN to_high
         ELSE result
    ELSE IF result > to_low THEN to_low
         ELSE IF result < to_high THEN to_high
         ELSE result

\* Modulate a value between two ranges.
modulate(value, range_a, range_b, clamp) ==
    LET from_low == range_a[1]
        from_high == range_a[2]
        to_low == range_b[1]
        to_high == range_b[2]
        result == to_low + Mul(Div(value - from_low, from_high - from_low), to_high - to_low)
    IN  IF clamp THEN modulate_clamp(result, to_low, to_high) ELSE result

\* (px, py) rotated by the angle with sine s and cosine c, moved by center.
rotate_about(px, py, s, c, center) ==
    Pos2(Mul(px, c) - Mul(py, s) + center.x, Mul(px, s) + Mul(py, c) + center.y)

\* Rotate a point around a center.
rotate_point(point, center, angle) ==
    rotate_about(point.x - center.x, point.y - center.y, Sin(angle), Cos(angle), center)

\* Get the distance between two points.
get_distance(pos0, pos1) ==
    Sqrt(Mul(pos1.y - pos0.y, pos1.y - pos0.y) + Mul(pos1.x - pos0.x, pos1.x - pos0.x))

\* Get an angle between two points.
get_angle(pos0, pos1) == Atan2(pos1.y - pos0.y, pos1.x - pos0.x)

\* Get a point between two points; d is the normalized distance.
get_point_between(pos0, pos1, d) ==
    Pos2(pos0.x + Mul(pos1.x - pos0.x, d), pos0.y + Mul(pos1.y - pos0.y, d))

\* Get the sector of an angle (e.g. quadrant, octant).
get_sector(a, s) == Floor(s * (SC \div 2 + FRem(Div(a, PI2), s * SC)))

\* do_rectangles_collide with > for >=: rectangles that touch collide.
do_rectangles_collide_touching(x0, y0, w0, h0, x1, y1, w1, h1) ==
    ~(x0 > x1 + w1 \/ x1 > x0 + w0 \/ y0 > y1 + h1 \/ y1 > y0 + h0)

\* Check whether two rectangles will collide (overlap).
do_rectangles_collide(x0, y0, w0, h0, x1, y1, w1, h1) ==
    ~(x0 >= x1 + w1 \/ x1 >= x0 + w0 \/ y0 >= y1 + h1 \/ y1 >= y0 + h0)

\* Normalize an angle.
normalize_angle(radians) == radians - PI2 * (radians \div PI2)

\* The hit of a ray on a segment from the determinant d and the numerators
\* nr, ns of r = nr / d and s = ns / d: the tests r >= 0 and 0 <= s <= 1 are
\* exact and the point x + r * dx is computed from the exact quotient.
ray_segment_hit(x, y, dx, dy, d, nr, ns) ==
    IF d.s # 0
    THEN IF nr.s * d.s >= 0 /\ ns.s * d.s >= 0 /\ BCmp(ns.m, d.m) <= 0
         THEN <<Pos2(x + SMulDiv(dx, nr, d), y + SMulDiv(dy, nr, d))>>
         ELSE <<>>
    ELSE <<>>

\* Get the point at which a ray intersects a segment: <<point>> or <<>>.
get_ray_segment_intersection(x, y, dx, dy, x0, y0, x1, y1) ==
    ray_segment_hit(x, y, dx, dy,
                    SSub(SProd(dx, y1 - y0), SProd(dy, x1 - x0)),
                    SSub(SProd(y - y0, x1 - x0), SProd(x - x0, y1 - y0)),
                    SSub(SProd(y - y0, dx), SProd(x - x0, dy)))

\* Get the normalized delta (x and y) for an angle.
get_delta(angle) == <<Cos(angle), Sin(angle)>>

\* How close an angle is to a 45 degree angle.
get_intermediate(angle) ==
    LET pi_over_4 == PI \div 4
        inner == Abs(FRem(angle, PI \div 2)) - PI \div 4
    IN  Div(Abs(inner), pi_over_4)

\* The points ox + t * dx of the roots t = (-b +- sqrt(d)) / (2 * a); a zero
\* direction divides by zero and yields only NaN points, which no later test
\* accepts.
ray_circle_points(ox, oy, dx, dy, a, b, d) ==
    LET sq == SB(1, BSqrt(d.m))
        t_values == IF d.s = 0 THEN <<SNeg(b)>>
                    ELSE <<SAdd(SNeg(b), sq), SSub(SNeg(b), sq)>>
    IN  IF d.s < 0 THEN [some |-> FALSE, pts |-> <<>>]
        ELSE IF a.s = 0 THEN [some |-> TRUE, pts |-> <<>>]
        ELSE [some |-> TRUE, pts |-> ray_points(ox, oy, dx, dy, t_values, SScale(2, a))]

\* The discriminant d = b * b - 4 * a * c, exact.
ray_circle_roots(ox, oy, dx, dy, a, b, c) ==
    ray_circle_points(ox, oy, dx, dy, a, b, SSub(SMul(b, b), SScale(4, SMul(a, c))))

\* Get the intersection points between a ray and a circle: [some, pts].
get_ray_circle_intersections(cx, cy, r, ox, oy, dx, dy) ==
    ray_circle_roots(ox, oy, dx, dy,
        SAdd(SProd(dx, dx), SProd(dy, dy)),
        SScale(2, SAdd(SProd(dx, ox - cx), SProd(dy, oy - cy))),
        SSub(SAdd(SProd(ox - cx, ox - cx), SProd(oy - cy, oy - cy)), SProd(r, r)))

\* The points of one corner arc hit by the ray: those whose angle about the
\* corner's center lies strictly inside the quarter (as_, ae).
CornerHits(corner, r, ox, oy, dx, dy) ==
    LET Inside(pt) ==
            LET point_angle == normalize_angle(get_angle(Pos2(corner[1], corner[2]), pt))
            IN  point_angle > corner[3] /\ point_angle < corner[4]
    IN  SelectSeq(get_ray_circle_intersections(corner[1], corner[2], r, ox, oy, dx, dy).pts,
                  Inside)

\* The points pushed in the four rounds of the loop, in order.
Concat4(rounds) == rounds[1] \o rounds[2] \o rounds[3] \o rounds[4]

\* Get the intersection points between a ray and a rectangle with rounded
\* corners, in the order of the loop over the four (corner, segment) pairs.
get_ray_rounded_rectangle_intersection(ox, oy, dx, dy, x, y, w, h, r) ==
    LET mx == x + w
        my == y + h
        rx == x + r
        ry == y + r
        mrx == x + w - r
        mry == y + h - r
        segments == << <<x, mry, x, ry>>, <<rx, y, mrx, y>>,
                       <<mx, ry, mx, mry>>, <<mrx, my, rx, my>> >>
        corners == << <<rx, ry, PI, PI + PI \div 2>>, <<mrx, ry, PI + PI \div 2, PI2>>,
                      <<mrx, mry, 0, PI \div 2>>, <<rx, mry, PI \div 2, PI>> >>
    IN  Concat4([i \in 1..4 |->
            CornerHits(corners[i], r, ox, oy, dx, dy)
            \o get_ray_segment_intersection(ox, oy, dx, dy, segments[i][1],
                   segments[i][2], segments[i][3], segments[i][4])])

\* Get Rectangle Segments.
get_rectangle_segments(x, y, w, h) ==
    << <<x, y, x + w, y>>, <<x + w, y, x + w, y + h>>,
       <<x + w, y + h, x, y + h>>, <<x, y + h, x, y>> >>

\* Get Rectangle Segment Intersected By Ray.
get_rectangle_segment_intersected_by_ray(x, y, w, h, ox, oy, dx, dy) ==
    LET Hit(sg) == get_ray_segment_intersection(ox, oy, dx, dy, sg[1], sg[2], sg[3], sg[4]) # <<>>
    IN  SelectSeq(get_rectangle_segments(x, y, w, h), Hit)

\* Get a line between two rounded rectangles: the two lists of which the
\* program takes element [0].
get_line_between_rounded_rectangles(x0, y0, w0, h0, r0, x1, y1, w1, h1, r1) ==
    LET cx0 == x0 + w0 \div 2
        cy0 == y0 + h0 \div 2
        cx1 == x1 + w1 \div 2
        cy1 == y1 + h1 \div 2
    IN  <<get_ray_rounded_rectangle_intersection(cx0, cy0, cx1 - cx0, cy1 - cy0, x0, y0, w0, h0, r0),
          get_ray_rounded_rectangle_intersection(cx1, cy1, cx0 - cx1, cy0 - cy1, x1, y1, w1, h1, r1)>>

\* ------------------------------------------------------------------------
\* perfect_arrows.rs
\* ------------------------------------------------------------------------

\* impl Default for ArrowOptions
ArrowOptions_default ==
    [bow |-> 0, stretch |-> 250, stretch_min |-> 50 * SC, stretch_max |-> 800 * SC,
     pad_start |-> 0, pad_end |-> 0, flip |-> FALSE, straights |-> FALSE]

\* ArrowOptions::with_flip
ArrowOptions_with_flip(flip) == [ArrowOptions_default EXCEPT !.flip = flip]

Origin == Pos2(0, 0)

\* The returned tuple (start, control, end, angle_end, angle_start,
\* angle_center), the return statement that produced it (ret) and the locals
\* is_colliding, overlap_effect and arc at that point: arc_adjusted is arc
\* after its multiplication, arc its final value.
ArrowResult(ret, start, control, end, angle_end, angle_start, angle_center, is_colliding, overlap_effect, arc_adjusted, arc) ==
    [ret |-> ret, start |-> start, control |-> control, end |-> end,
     angle_end |-> angle_end, angle_start |-> angle_start, angle_center |-> angle_center,
     is_colliding |-> is_colliding, overlap_effect |-> overlap_effect,
     arc_adjusted |-> arc_adjusted, arc |-> arc]

\* An index [0] into an empty Vec: the call panics and returns nothing.
ArrowPanic == ArrowResult("panic", Origin, Origin, Origin, 0, 0, 0, FALSE, 0, 0, 0)

\* The middle of a rectangle segment <<x0, y0, x1, y1>>.
segment_midpoint(sg) == get_point_between(Pos2(sg[1], sg[2]), Pos2(sg[3], sg[4]), 500)

\* arc *= 1.0 + (dist_effect.clamp(-2.0, 2.0) * card - overlap_effect) / 2.0
arrow_arc_adjusted(m, e) ==
    Mul(e.arc, SC + Div(Mul(Clamp(e.dist_effect, -2 * SC, 2 * SC), m.card)
                        - e.overlap_effect, 2 * SC))

\* The returned tuple once start, end and arc are known: the control point
\* and the two end angles.
arrow_return(g, m, e, start, end, arc, control) ==
    ArrowResult("curved", start, control, end, get_angle(control, end),
                get_angle(control, start), m.angle_center, m.is_colliding,
                e.overlap_effect, arrow_arc_adjusted(m, e), arc)

\* arrow_choose_control with > for <: the candidate nearer to the end box's
\* center.
arrow_choose_control_nearer(g, m, e, start, end, arc, ci_a, ci_b) ==
    arrow_return(g, m, e, start, end, arc,
        IF m.is_colliding
           /\ get_distance(ci_a, Pos2(g.cx1, g.cy1)) > get_distance(ci_b, Pos2(g.cx1, g.cy1))
        THEN ci_b
        ELSE ci_a)

\* The choice between the two candidate control points.
arrow_choose_control(g, m, e, start, end, arc, ci_a, ci_b) ==
    arrow_return(g, m, e, start, end, arc,
        IF m.is_colliding
           /\ get_distance(ci_a, Pos2(g.cx1, g.cy1)) < get_distance(ci_b, Pos2(g.cx1, g.cy1))
        THEN ci_b
        ELSE ci_a)

\* arrow_control with ti turned about start instead of the midpoint m1.
arrow_control_about_start(g, m, e, start, end, arc) ==
    LET m1 == get_point_between(start, end, 500)
        ti == get_point_between(start, end, Clamp(500 + arc, -SC, SC))
    IN  arrow_choose_control(g, m, e, start, end, arc,
            rotate_point(ti, start, (PI \div 2) * m.rot),
            rotate_point(ti, start, (PI \div 2) * (-m.rot)))

\* arrow_control with ti turned by PI instead of PI / 2: both candidates
\* stay on the line through start and end.
arrow_control_half_turn(g, m, e, start, end, arc) ==
    LET m1 == get_point_between(start, end, 500)
        ti == get_point_between(start, end, Clamp(500 + arc, -SC, SC))
    IN  arrow_choose_control(g, m, e, start, end, arc,
            rotate_point(ti, m1, PI * m.rot),
            rotate_point(ti, m1, PI * (-m.rot)))

\* The two candidate control points: ti rotated about the midpoint m1.
arrow_control(g, m, e, start, end, arc) ==
    LET m1 == get_point_between(start, end, 500)
        ti == get_point_between(start, end, Clamp(500 + arc, -SC, SC))
    IN  arrow_choose_control(g, m, e, start, end, arc,
            rotate_point(ti, m1, (PI \div 2) * m.rot),
            rotate_point(ti, m1, (PI \div 2) * (-m.rot)))

\* The end point when overlap_effect >= 0.5: e_temp[0].
arrow_end_overlapping(g, dA) ==
    get_ray_rounded_rectangle_intersection(g.cx1, g.cy1, dA[1], dA[2],
                                           g.px1, g.py1, g.pw1, g.ph1, g.pad_end)

\* arrow_end_blend with the point taken beyond te, away from the middle of
\* end_seg.
arrow_end_blend_beyond(e, te, end_seg) ==
    IF te = <<>> \/ end_seg = <<>> THEN <<>>
    ELSE <<get_point_between(segment_midpoint(end_seg[1]), te[1],
                             1250 + Mul(e.overlap_effect, 250))>>

\* The end point otherwise, from te and end_seg: <<>> when the index [0] of
\* either panics.
arrow_end_blend(e, te, end_seg) ==
    IF te = <<>> \/ end_seg = <<>> THEN <<>>
    ELSE <<get_point_between(te[1], segment_midpoint(end_seg[1]),
                             250 + Mul(e.overlap_effect, 250))>>

arrow_end_offset(g, dB, e) ==
    arrow_end_blend(e,
        get_ray_rounded_rectangle_intersection(g.cx1, g.cy1, dB[1], dB[2],
                                               g.px1, g.py1, g.pw1, g.ph1, g.pad_end),
        get_rectangle_segment_intersected_by_ray(g.px1, g.py1, g.pw1, g.ph1,
                                                 g.cx1, g.cy1, dB[1], dB[2]))

\* The end point: <<end>>, or <<>> when the code panics on an index.
arrow_end(g, m, e, smp) ==
    IF e.overlap_effect >= 500
    THEN arrow_end_overlapping(g, get_delta(get_angle(Pos2(g.cx0, g.cy0), smp)))
    ELSE LET dist_offset1 == modulate(e.dist_effect, <<750, SC>>, <<0, SC>>, TRUE)
             overlap_effect1 ==
                 IF m.is_colliding
                 THEN modulate(e.overlap_effect, <<0, SC>>, <<0, PI \div 8>>, TRUE)
                 ELSE 0
             card_effect1 ==
                 modulate(Mul(m.card, dist_offset1), <<0, SC>>, <<0, PI \div 16>>, TRUE)
             combined_offset == Mul(e.dist_effect, PI \div 12)
                                + (card_effect1 + overlap_effect1)
                                + (e.dist_offset + e.angle_offset) \div 2
             final_angle1 ==
                 IF e.overlap_effect >= 500
                 THEN m.angle_center + PI * m.rot
                 ELSE m.angle_center + PI - Max2(combined_offset, MIN_ANGLE) * m.rot
         IN  arrow_end_offset(g, get_delta(final_angle1 % PI2), e)

\* arrow_arc_colliding without the test of the sign: a negative arc becomes
\* +0.5.
arrow_arc_colliding_unsigned(arc, is_colliding) ==
    IF is_colliding THEN Max2(arc, 500) ELSE arc

\* arc, when the boxes collide, kept at least 0.5 away from 0.
arrow_arc_colliding(arc, is_colliding) ==
    IF is_colliding
    THEN IF arc < 0 THEN Min2(arc, -500) ELSE Max2(arc, 500)
    ELSE arc

\* arc after its adjustment by dist_effect, card and overlap_effect.
arrow_arc(m, e) == arrow_arc_colliding(arrow_arc_adjusted(m, e), m.is_colliding)

arrow_finish(g, m, e, start, ends) ==
    IF ends = <<>> THEN ArrowPanic
    ELSE arrow_control(g, m, e, start, ends[1], arrow_arc(m, e))

\* The start point from ts[0] and the middle of start_seg[0], then the end.
arrow_start_point(g, m, e, ts0, smp) ==
    arrow_finish(g, m, e,
        get_point_between(ts0, smp,
            IF m.is_colliding THEN Max2(e.overlap_effect, 150) ELSE 150),
        arrow_end(g, m, e, smp))

arrow_start_hits(g, m, e, ts, start_seg) ==
    IF start_seg = <<>> \/ ts = <<>> THEN ArrowPanic
    ELSE arrow_start_point(g, m, e, ts[1], segment_midpoint(start_seg[1]))

arrow_start_ray(g, m, e, d0) ==
    arrow_start_hits(g, m, e,
        get_ray_rounded_rectangle_intersection(g.cx0, g.cy0, d0[1], d0[2],
                                               g.px0, g.py0, g.pw0, g.ph0, g.pad_start),
        get_rectangle_segment_intersected_by_ray(g.px0, g.py0, g.pw0, g.ph0,
                                                 g.cx0, g.cy0, d0[1], d0[2]))

\* arrow_start without the floor MIN_ANGLE under combined_offset.
arrow_start_without_min_angle(g, m, e) ==
    LET combined_offset ==
            e.dist_offset
            + Mul(e.angle_offset, IF m.is_colliding THEN SC - e.overlap_effect ELSE SC)
        final_angle0 ==
            IF e.overlap_effect >= 500
            THEN m.angle_center + PI * m.rot
            ELSE m.angle_center + combined_offset * m.rot
    IN  arrow_start_ray(g, m, e, get_delta(final_angle0 % PI2))

\* The direction of the ray that leaves the start box.
arrow_start(g, m, e) ==
    LET combined_offset ==
            e.dist_offset
            + Mul(e.angle_offset, IF m.is_colliding THEN SC - e.overlap_effect ELSE SC)
        final_angle0 ==
            IF e.overlap_effect >= 500
            THEN m.angle_center + PI * m.rot
            ELSE m.angle_center + Max2(MIN_ANGLE, combined_offset) * m.rot
    IN  arrow_start_ray(g, m, e, get_delta(final_angle0 % PI2))

\* overlap_effect, dist_effect, arc (before its adjustment), angle_offset
\* and dist_offset.
arrow_effects(g, m, distance_between, dist_effect) ==
    [overlap_effect |->
         IF m.is_colliding
         THEN modulate(distance_between, <<0, m.distance>>, <<0, SC>>, TRUE)
         ELSE 0,
     dist_effect |-> dist_effect,
     arc |-> g.bow + Mul(modulate(distance_between, <<g.stretch_min, g.stretch_max>>,
                                  <<SC, 0>>, TRUE), g.stretch),
     angle_offset |-> modulate(Mul(m.card, m.card), <<0, SC>>, <<PI \div 8, 0>>, TRUE),
     dist_offset |->
         IF m.is_colliding
         THEN Mul(PI \div 2, m.card)
         ELSE Mul(modulate(dist_effect, <<750, SC>>, <<0, PI \div 2>>, TRUE), m.card)]

\* The straight shortcut, or the curved arrow.
arrow_between(g, m, di0, di1, distance_between) ==
    IF ~m.is_colliding /\ g.straights /\ FRem(m.card, SC \div 2) = 0
    THEN ArrowResult("straight", di0, get_point_between(di0, di1, 500), di1,
                     m.angle_center, m.angle_center - PI, m.angle_center,
                     m.is_colliding, 0, 0, 0)
    ELSE arrow_start(g, m, arrow_effects(g, m, distance_between,
                                         SC - Div(distance_between, m.distance)))

\* (di0, di1): element [0] of each list; the index panics on an empty list.
arrow_line(g, m, di) ==
    IF di[1] = <<>> \/ di[2] = <<>> THEN ArrowPanic
    ELSE arrow_between(g, m, di[1][1], di[2][1], get_distance(di[1][1], di[2][1]))

\* arrow_rot with the two signs of the sector's parity exchanged.
arrow_rot_odd(angle_center, flip) ==
    (IF get_sector(angle_center, 8) % 2 = 0 THEN 1 ELSE -1) * (IF flip THEN -1 ELSE 1)

\* rot: the side the arrow bows to, from the octant of the chord and the flip.
arrow_rot(angle_center, flip) ==
    (IF get_sector(angle_center, 8) % 2 = 0 THEN -1 ELSE 1) * (IF flip THEN -1 ELSE 1)

\* card after the snap: a card in (0.85, 1) becomes 0.99.
arrow_card(card) == IF card < SC /\ card > 850 THEN 990 ELSE card

\* arrow_metrics with a rot that ignores options.flip.
arrow_metrics_without_flip(g, angle_center, distance, card) ==
    [angle_center |-> angle_center,
     distance |-> distance,
     rot |-> IF get_sector(angle_center, 8) % 2 = 0 THEN -1 ELSE 1,
     card |-> IF card < SC /\ card > 850 THEN 990 ELSE card,
     is_colliding |-> do_rectangles_collide(g.px0, g.py0, g.pw0, g.ph0,
                                            g.px1, g.py1, g.pw1, g.ph1)]

\* rot, card and is_colliding.
arrow_metrics(g, angle_center, distance, card) ==
    [angle_center |-> angle_center,
     distance |-> distance,
     rot |-> arrow_rot(angle_center, g.flip),
     card |-> arrow_card(card),
     is_colliding |-> do_rectangles_collide(g.px0, g.py0, g.pw0, g.ph0,
                                            g.px1, g.py1, g.pw1, g.ph1)]

\* arrow_from_centers with a fallback through the centers of the boxes
\* instead of their tops.
arrow_from_centers_through_centers(g, angle_center, distance) ==
    IF distance = 0
    THEN LET s == Pos2(g.cx0, g.cy0)
             e == Pos2(g.cx1, g.cy1)
         IN  ArrowResult("degenerate", s, get_point_between(s, e, 500), e,
                         get_angle(s, e), get_angle(s, e), get_angle(s, e), FALSE, 0, 0, 0)
    ELSE arrow_line(g, arrow_metrics(g, angle_center, distance,
                                     get_intermediate(angle_center)),
                    get_line_between_rounded_rectangles(
                        g.px0, g.py0, g.pw0, g.ph0, g.pad_start,
                        g.px1, g.py1, g.pw1, g.ph1, g.pad_end))

\* The fallback for boxes with one center, or the arrow between the boxes.
arrow_from_centers(g, angle_center, distance) ==
    IF distance = 0
    THEN LET s == Pos2(g.cx0, g.py0)
             e == Pos2(g.cx1, g.py1)
         IN  ArrowResult("degenerate", s, get_point_between(s, e, 500), e,
                         get_angle(s, e), get_angle(s, e), get_angle(s, e), FALSE, 0, 0, 0)
    ELSE arrow_line(g, arrow_metrics(g, angle_center, distance,
                                     get_intermediate(angle_center)),
                    get_line_between_rounded_rectangles(
                        g.px0, g.py0, g.pw0, g.ph0, g.pad_start,
                        g.px1, g.py1, g.pw1, g.ph1, g.pad_end))

\* The options, the padded rectangles and the centers.
arrow_boxes(start, start_size, end, end_size, options) ==
    [bow |-> options.bow, stretch |-> options.stretch,
     stretch_min |-> options.stretch_min, stretch_max |-> options.stretch_max,
     pad_start |-> options.pad_start, pad_end |-> options.pad_end,
     flip |-> options.flip, straights |-> options.straights,
     px0 |-> start.x - options.pad_start,
     py0 |-> start.y - options.pad_start,
     pw0 |-> start_size.x + options.pad_start * 2,
     ph0 |-> start_size.y + options.pad_start * 2,
     px1 |-> end.x - options.pad_end,
     py1 |-> end.y - options.pad_end,
     pw1 |-> end_size.x + options.pad_end * 2,
     ph1 |-> end_size.y + options.pad_end * 2,
     cx0 |-> start.x + start_size.x \div 2,
     cy0 |-> start.y + start_size.y \div 2,
     cx1 |-> end.x + end_size.x \div 2,
     cy1 |-> end.y + end_size.y \div 2]

arrow_centers(g) ==
    arrow_from_centers(g,
        normalize_angle(get_angle(Pos2(g.cx0, g.cy0), Pos2(g.cx1, g.cy1))),
        get_distance(Pos2(g.cx0, g.cy0), Pos2(g.cx1, g.cy1)))

get_box_to_box_arrow(start, start_size, end, end_size, options) ==
    arrow_centers(arrow_boxes(start, start_size, end, end_size, options))

\* ------------------------------------------------------------------------
\* edge_renderer.rs: the obstacle index and the choice of the flip
\* ------------------------------------------------------------------------

\* `as u32` of a float: the fraction is dropped and a negative number is 0.
AsU32(v) == IF v <= 0 THEN 0 ELSE v \div SC

\* struct Segment: start and end are pairs <<x, y>>.
Segment(start, end) == [start |-> start, end |-> end]

\* struct BoundingBox
BoundingBox(x, y, width, height) == [x |-> x, y |-> y, width |-> width, height |-> height]

\* BoundingBox::contains_point
contains_point(b, px, py) ==
    px >= b.x /\ px <= b.x + b.width /\ py >= b.y /\ py <= b.y + b.height

\* BoundingBox::area: the Area<u32> of whole coordinates.
area(b) ==
    [x |-> AsU32(b.x), y |-> AsU32(b.y), w |-> AsU32(b.width), h |-> AsU32(b.height)]

\* AreaBuilder::build() refuses a dimension of zero and unwrap() panics.
area_panics(b) == AsU32(b.width) = 0 \/ AsU32(b.height) = 0

\* Quadtree::<u32, BoundingBox>::new(12): the depth of the tree.
QuadtreeDepth == 12

\* The side of the square region the tree covers.
QuadtreeSide == 2 ^ QuadtreeDepth

\* Quadtree::insert: an area outside the region is not stored.  The tree is
\* the sequence of its entries.
quadtree_insert(quadtree, b) ==
    IF area(b).x + area(b).w <= QuadtreeSide /\ area(b).y + area(b).h <= QuadtreeSide
    THEN Append(quadtree, [area |-> area(b), value |-> b])
    ELSE quadtree

\* Area::intersects: the two areas share a cell.
area_intersects(p, q) ==
    p.x < q.x + q.w /\ q.x < p.x + p.w /\ p.y < q.y + q.h /\ q.y < p.y + p.h

\* Quadtree::query: the entries whose area intersects the queried area.
quadtree_query(quadtree, a) ==
    LET Hit(entry) == area_intersects(entry.area, a)
    IN  SelectSeq(quadtree, Hit)

\* Helper to build arrow segments from start, center, end.
build_arrow_segments(start, center, end) ==
    <<Segment(<<start.x, start.y>>, <<center.x, center.y>>),
      Segment(<<center.x, center.y>>, <<end.x, end.y>>)>>

\* fn ccw inside segments_intersect, on exact products.
ccw(p1, p2, p3) ==
    SSub(SProd(p3[2] - p1[2], p2[1] - p1[1]), SProd(p2[2] - p1[2], p3[1] - p1[1])).s > 0

\* segments_intersect without its second test: the ends of a on the two
\* sides of the line through b.
segments_intersect_line(a, b) ==
    ccw(a.start, b.start, b.end) # ccw(a.end, b.start, b.end)

\* Helper: check if two segments intersect.
segments_intersect(a, b) ==
    /\ ccw(a.start, b.start, b.end) # ccw(a.end, b.start, b.end)
    /\ ccw(a.start, a.end, b.start) # ccw(a.start, a.end, b.end)

\* Check if a segment intersects a rectangle (simple version).
segment_intersects_rect(seg, rect) ==
    LET edges == <<Segment(<<rect.x, rect.y>>, <<rect.x + rect.width, rect.y>>),
                   Segment(<<rect.x, rect.y>>, <<rect.x, rect.y + rect.height>>),
                   Segment(<<rect.x + rect.width, rect.y>>,
                           <<rect.x + rect.width, rect.y + rect.height>>),
                   Segment(<<rect.x, rect.y + rect.height>>,
                           <<rect.x + rect.width, rect.y + rect.height>>)>>
    IN  \/ contains_point(rect, seg.start[1], seg.start[2])
        \/ contains_point(rect, seg.end[1], seg.end[2])
        \/ \E i \in 1..4 : segments_intersect(seg, edges[i])

\* The bounding box of a segment.
seg_bbox(seg) ==
    BoundingBox(Min2(seg.start[1], seg.end[1]), Min2(seg.start[2], seg.end[2]),
                Max2(seg.start[1], seg.end[1]) - Min2(seg.start[1], seg.end[1]),
                Max2(seg.start[2], seg.end[2]) - Min2(seg.start[2], seg.end[2]))

\* The entries found for one segment that the segment intersects.
segment_collisions(quadtree, seg) ==
    LET Collides(entry) == segment_intersects_rect(seg, entry.value)
    IN  Len(SelectSeq(quadtree_query(quadtree, area(seg_bbox(seg))), Collides))

\* The outcome of a call that panicked, where a count is expected.
Panicked == -1

\* Count collisions for an arrow path.
arrow_collision_count(quadtree, arrow_segments) ==
    IF \E i \in 1..Len(arrow_segments) : area_panics(seg_bbox(arrow_segments[i]))
    THEN Panicked
    ELSE segment_collisions(quadtree, arrow_segments[1])
         + segment_collisions(quadtree, arrow_segments[2])

\* for &flip in &[false, true]
Flips == <<FALSE, TRUE>>

\* usize::MAX: above every count.
USIZE_MAX == IntMax

\* One round of the loop of choose_best_arrow_flip with <= in place of <.
flip_round_or_equal(best, flip, collisions) ==
    IF collisions <= best.min_collisions
    THEN [best_flip |-> flip, min_collisions |-> collisions]
    ELSE best

\* One round of the loop of choose_best_arrow_flip.
flip_round(best, flip, collisions) ==
    IF collisions < best.min_collisions
    THEN [best_flip |-> flip, min_collisions |-> collisions]
    ELSE best

\* The route of one round and its collision count.
flip_candidate(quadtree, route) ==
    [route |-> route,
     collisions |->
         IF route.ret = "panic" THEN Panicked
         ELSE arrow_collision_count(quadtree,
                  build_arrow_segments(route.start, route.control, route.end))]

\* The flip left in best_flip after the two rounds, with the candidates.
flip_choice(candidates) ==
    IF candidates[1].collisions = Panicked \/ candidates[2].collisions = Panicked
    THEN [ret |-> "panic", best_flip |-> FALSE, candidates |-> candidates]
    ELSE [ret |-> "ok",
          best_flip |->
              flip_round(flip_round([best_flip |-> FALSE, min_collisions |-> USIZE_MAX],
                                    Flips[1], candidates[1].collisions),
                         Flips[2], candidates[2].collisions).best_flip,
          candidates |-> candidates]

\* Choose the best arrow flip based on collision count.
choose_best_arrow_flip(start, start_size, end, end_size, quadtree) ==
    flip_choice([k \in 1..2 |->
        flip_candidate(quadtree,
            get_box_to_box_arrow(start, start_size, end, end_size,
                                 ArrowOptions_with_flip(Flips[k])))])

\* ------------------------------------------------------------------------
\* edge_renderer.rs: the path of one edge from the elements of the page
\* ------------------------------------------------------------------------

\* The ids of the node elements a page may hold.
NodeIds == {"a", "b", "c"}

\* An element of the page: present or not, and its bounding client rectangle
\* moved by the scroll offset of the window.
Element(left, top, width, height) ==
    [present |-> TRUE, left |-> left, top |-> top, width |-> width, height |-> height]

NoElement == [present |-> FALSE, left |-> 0, top |-> 0, width |-> 0, height |-> 0]

\* document.get_element_by_id
get_element_by_id(page, id) == page.nodes[id]

\* fn get_coords
get_coords(el) ==
    [top |-> el.top, right |-> el.left + el.width, bottom |-> el.top + el.height,
     left |-> el.left, width |-> el.width, height |-> el.height]

\* The bounding box inserted for a node element.
node_bbox(el) ==
    BoundingBox(get_coords(el).left, get_coords(el).top,
                get_coords(el).width, get_coords(el).height)

\* Build quadtree from all node bounding boxes: the tree after the elements
\* of node_ids from position i on are inserted.
RECURSIVE build_quadtree(_, _, _, _)
build_quadtree(page, node_ids, i, quadtree) ==
    IF i > Len(node_ids) THEN quadtree
    ELSE IF get_element_by_id(page, node_ids[i]).present
    THEN build_quadtree(page, node_ids, i + 1,
             quadtree_insert(quadtree, node_bbox(get_element_by_id(page, node_ids[i]))))
    ELSE build_quadtree(page, node_ids, i + 1, quadtree)

\* bbox.area() panics for one of the nodes.
build_quadtree_panics(page, node_ids) ==
    \E i \in 1..Len(node_ids) :
        /\ get_element_by_id(page, node_ids[i]).present
        /\ area_panics(node_bbox(get_element_by_id(page, node_ids[i])))

\* The side of the chord start-end on which the control point lies: the sign
\* of the cross product (control - chordMidpoint) x (end - start), exact.
ControlSide(r) ==
    SSub(SProd(2 * r.control.x - r.start.x - r.end.x, r.end.y - r.start.y),
         SProd(2 * r.control.y - r.start.y - r.end.y, r.end.x - r.start.x)).s

\* What a pass of generate_arrow_path_safe leaves: how it ended (ret is
\* "ok", "err" or "panic"), the error, the flip it chose with the two
\* candidates of the choice, the route it emitted and the label position.
PathResult(ret, err, use_flip, candidates, route, label) ==
    [ret |-> ret, err |-> err, use_flip |-> use_flip, candidates |-> candidates,
     route |-> route, label |-> label]

PathErr(err) == PathResult("err", err, FALSE, <<>>, ArrowPanic, <<>>)

PathPanic == PathResult("panic", "", FALSE, <<>>, ArrowPanic, <<>>)

\* label_position with the offset along the tangent instead of the normal.
label_position_along_tangent(route, dx_mid, dy_mid, len, control_side) ==
    IF len = 0 THEN <<>>
    ELSE <<(route.start.x + 2 * route.control.x + route.end.x) \div 4
             + Mul(IF control_side > 0 THEN Div(dx_mid, len) ELSE -Div(dx_mid, len), 20 * SC),
           (route.start.y + 2 * route.control.y + route.end.y) \div 4
             + Mul(IF control_side > 0 THEN Div(dy_mid, len) ELSE -Div(dy_mid, len), 20 * SC)>>

\* The label position from the tangent (dx_mid, dy_mid) = end - start at the
\* middle of the curve, its length and the side of the control point: <<x, y>>,
\* or <<>> for the NaN of a zero length.
label_position(route, dx_mid, dy_mid, len, control_side) ==
    IF len = 0 THEN <<>>
    ELSE <<(route.start.x + 2 * route.control.x + route.end.x) \div 4
             + Mul(IF control_side > 0 THEN Div(-dy_mid, len) ELSE -Div(-dy_mid, len), 20 * SC),
           (route.start.y + 2 * route.control.y + route.end.y) \div 4
             + Mul(IF control_side > 0 THEN Div(dx_mid, len) ELSE -Div(dx_mid, len), 20 * SC)>>

\* The EdgeSvgData of the emitted route.
edge_svg_data(use_flip, candidates, route) ==
    IF route.ret = "panic" THEN PathPanic
    ELSE PathResult("ok", "", use_flip, candidates, route,
             label_position(route, route.end.x - route.start.x, route.end.y - route.start.y,
                            get_distance(route.start, route.end), ControlSide(route)))

\* The route computed with the chosen flip.
arrow_path_with_flip(start, start_size, end, end_size, choice) ==
    IF choice.ret = "panic" THEN PathPanic
    ELSE edge_svg_data(choice.best_flip, choice.candidates,
             get_box_to_box_arrow(start, start_size, end, end_size,
                                  ArrowOptions_with_flip(choice.best_flip)))

\* The positions relative to the content container, the quadtree of the
\* nodes and the choice of the flip.
arrow_path_between(page, node_ids, source, target, content) ==
    IF build_quadtree_panics(page, node_ids) THEN PathPanic
    ELSE arrow_path_with_flip(
             Pos2(source.left - content.left, source.top - content.top),
             Pos2(source.right - source.left, source.bottom - source.top),
             Pos2(target.left - content.left, target.top - content.top),
             Pos2(target.right - target.left, target.bottom - target.top),
             choose_best_arrow_flip(
                 Pos2(source.left - content.left, source.top - content.top),
                 Pos2(source.right - source.left, source.bottom - source.top),
                 Pos2(target.left - content.left, target.top - content.top),
                 Pos2(target.right - target.left, target.bottom - target.top),
                 build_quadtree(page, node_ids, 1, <<>>)))

\* fn generate_arrow_path_safe(edge, node_ids) of src/edge_renderer.rs, on
\* the elements of the page.
generate_arrow_path_safe(page, edge, node_ids) ==
    IF ~get_element_by_id(page, edge.source).present THEN PathErr("Source node not found")
    ELSE IF ~get_element_by_id(page, edge.target).present THEN PathErr("Target node not found")
    ELSE IF ~page.arena.present THEN PathErr("Content container not found")
    ELSE arrow_path_between(page, node_ids,
             get_coords(get_element_by_id(page, edge.source)),
             get_coords(get_element_by_id(page, edge.target)),
             get_coords(page.arena))

\* ------------------------------------------------------------------------
\* components/edge_renderer.rs: the path of one edge, without the choice
\* ------------------------------------------------------------------------

\* The route with ArrowOptions::default() between the positions relative to
\* the content container.
components_arrow_path_between(source, target, content) ==
    edge_svg_data(FALSE, <<>>,
        get_box_to_box_arrow(
            Pos2(source.left - content.left, source.top - content.top),
            Pos2(source.right - source.left, source.bottom - source.top),
            Pos2(target.left - content.left, target.top - content.top),
            Pos2(target.right - target.left, target.bottom - target.top),
            ArrowOptions_default))

\* fn generate_arrow_path_safe(edge) of src/components/edge_renderer.rs: the
\* content container is the element with the id graph-content.
components_generate_arrow_path_safe(page, edge) ==
    IF ~get_element_by_id(page, edge.source).present THEN PathErr("Source node not found")
    ELSE IF ~get_element_by_id(page, edge.target).present THEN PathErr("Target node not found")
    ELSE IF ~page.content.present THEN PathErr("Content container not found")
    ELSE components_arrow_path_between(
             get_coords(get_element_by_id(page, edge.source)),
             get_coords(get_element_by_id(page, edge.target)),
             get_coords(page.content))

\* ------------------------------------------------------------------------
\* State
\* ------------------------------------------------------------------------

VARIABLES
    inp,        \* the arguments of a get_box_to_box_arrow call
    res,        \* what the call returned
    resFlip,    \* what the call with options.flip negated returned
    page,       \* the elements of the page: the nodes and their containers
    last,       \* what the last pass of generate_arrow_path_safe left
    variant,    \* EdgeRenderer: "lib" (src/edge_renderer.rs) or "components"
    svg_data,   \* EdgeRenderer: the signal svg_data
    shown,      \* EdgeRenderer: what the last render drew
    dirty,      \* EdgeRenderer: a render is due
    timers,     \* EdgeRenderer: the spawned tasks waiting for their timeout
    renders,    \* EdgeRenderer: the renders so far, up to MaxRenders
    changes,    \* the changes of the page so far
    initial_load,   \* AllEdgesWithMounted: the signal initial_load
    window_size,    \* AllEdgesWithMounted: the signal window_size
    effects,        \* AllEdgesWithMounted: the use_effect closures due to run
    listening,      \* AllEdgesWithMounted: the resize listener is installed
    tasks,          \* AllEdgesWithMounted: the tasks spawned, in spawn order
    arrow_paths,    \* AllEdgesWithMounted: the signal arrow_paths
    util,       \* the utility function called and its arguments
    out         \* what the utility function returned

solverVars == <<inp, res, resFlip>>

pageVars == <<page, last>>

edgeVars == <<variant, svg_data, shown, dirty, timers, renders>>

allVars == <<initial_load, window_size, effects, listening, tasks, arrow_paths>>

utilVars == <<util, out>>

vars == <<inp, res, resFlip, page, last, variant, svg_data, shown, dirty, timers, renders,
          changes, initial_load, window_size, effects, listening, tasks, arrow_paths,
          util, out>>

\* No call has returned yet.
NoResult == ArrowResult("none", Origin, Origin, Origin, 0, 0, 0, FALSE, 0, 0, 0)

\* No call is set up.
NoInput ==
    [start |-> Origin, start_size |-> Origin, end |-> Origin, end_size |-> Origin,
     options |-> ArrowOptions_default]

\* A page without elements.
NoPage ==
    [nodes |-> [n \in NodeIds |-> NoElement], arena |-> NoElement, content |-> NoElement]

\* No pass has run yet.
NoPass == PathResult("none", "", FALSE, <<>>, ArrowPanic, <<>>)

\* None::<EdgeSvgData>
None == [some |-> FALSE, data |-> NoPass]

\* Some(data)
Some(data) == [some |-> TRUE, data |-> data]

\* HashMap::new(), stored by no task.
NoPaths == [paths |-> <<>>, by |-> 0]

\* No utility call is set up.
NoCall == [fn |-> "none"]

\* No utility function has returned.
NoOut == [done |-> FALSE, value |-> 0]

UtilIdle ==
    /\ util = NoCall
    /\ out = NoOut

\* No solver call is set up.
SolverIdle ==
    /\ inp = NoInput
    /\ res = NoResult
    /\ resFlip = NoResult

\* No EdgeRenderer is mounted.
EdgeIdle ==
    /\ variant = "none"
    /\ svg_data = None
    /\ shown = None
    /\ dirty = FALSE
    /\ timers = 0
    /\ renders = 0

\* No AllEdgesWithMounted is mounted.
AllIdle ==
    /\ initial_load = FALSE
    /\ window_size = 0
    /\ effects = {}
    /\ listening = FALSE
    /\ tasks = <<>>
    /\ arrow_paths = NoPaths

\* ------------------------------------------------------------------------
\* The solver on its own: one call and the call with flip negated
\* ------------------------------------------------------------------------

\* The end box's center is offset from the start box's by -GridN..GridN
\* steps of (StepX, StepY) length units.
GridN == 2

StepX == 15

StepY == 10

Grid == (-GridN)..GridN

\* <<start width, start height, end width, end height>> in length units.
BoxSizes ==
    {<<10, 10, 10, 10>>, <<20, 10, 10, 30>>, <<0, 10, 10, 10>>,
     <<0, 0, 10, 10>>, <<10, 10, 0, 0>>}

OptionSets ==
    {ArrowOptions_default,
     ArrowOptions_with_flip(TRUE),
     [ArrowOptions_default EXCEPT !.straights = TRUE],
     [ArrowOptions_default EXCEPT !.pad_start = 2 * SC, !.pad_end = 3 * SC],
     [ArrowOptions_default EXCEPT !.bow = -250, !.pad_end = 2 * SC, !.straights = TRUE],
     [ArrowOptions_default EXCEPT !.bow = 100, !.stretch = 500,
                                  !.stretch_min = 0, !.stretch_max = 40 * SC]}

\* The start box at (40, 40); the end box's center (gx, gy) steps away from
\* the start box's center.
ArrowInput(bs, gx, gy, o) ==
    [start |-> Pos2(40 * SC, 40 * SC),
     start_size |-> Pos2(bs[1] * SC, bs[2] * SC),
     end |-> Pos2(40 * SC + (bs[1] * SC) \div 2 + gx * StepX * SC - (bs[3] * SC) \div 2,
                  40 * SC + (bs[2] * SC) \div 2 + gy * StepY * SC - (bs[4] * SC) \div 2),
     end_size |-> Pos2(bs[3] * SC, bs[4] * SC),
     options |-> o]

\* Boxes of 10 x 10 whose centers lie on a diagonal: the end box's center is
\* StepX length units away on both axes.
DiagonalInputs ==
    {[ArrowInput(<<10, 10, 10, 10>>, gx, 0, o)
        EXCEPT !.end.y = 40 * SC + gy * StepX * SC] :
        gx \in {-1, 1}, gy \in {-1, 1}, o \in OptionSets}

\* Two boxes side by side: A at (0, 0) and B at (300, 0), both 100 x 50.
SideBySideInput ==
    [start |-> Pos2(0, 0), start_size |-> Pos2(100 * SC, 50 * SC),
     end |-> Pos2(300 * SC, 0), end_size |-> Pos2(100 * SC, 50 * SC),
     options |-> ArrowOptions_default]

\* Calls a caller should not make: a negative width or height, or
\* stretch_min above stretch_max.
MalformedInputs ==
    {ArrowInput(bs, gx, gy, ArrowOptions_default) :
        bs \in {<<-10, 10, 10, 10>>, <<10, 10, 10, -10>>}, gx \in Grid, gy \in Grid}
    \cup {ArrowInput(<<10, 10, 10, 10>>, gx, gy,
                     [ArrowOptions_default EXCEPT !.stretch_min = 800 * SC,
                                                  !.stretch_max = 50 * SC]) :
             gx \in Grid, gy \in Grid}

\* Padded boxes with a bow of -1: the arc is negative at every distance.
NegativeBowInputs ==
    {ArrowInput(bs, gx, gy, [ArrowOptions_default EXCEPT !.bow = -SC, !.pad_start = 2 * SC,
                                                         !.pad_end = 3 * SC]) :
        bs \in {<<10, 10, 10, 10>>, <<20, 10, 10, 30>>}, gx \in Grid, gy \in Grid}

ArrowInputs ==
    {ArrowInput(bs, gx, gy, o) :
        bs \in BoxSizes, gx \in Grid, gy \in Grid, o \in OptionSets}
    \cup DiagonalInputs \cup {SideBySideInput} \cup MalformedInputs
    \cup NegativeBowInputs

CallArrow(i) ==
    get_box_to_box_arrow(i.start, i.start_size, i.end, i.end_size, i.options)

Flipped(i) == [i EXCEPT !.options.flip = ~@]

InitArrow ==
    /\ inp \in ArrowInputs
    /\ res = NoResult
    /\ resFlip = NoResult
    /\ page = NoPage
    /\ last = NoPass
    /\ changes = 0
    /\ EdgeIdle
    /\ AllIdle
    /\ UtilIdle

\* get_box_to_box_arrow(start, start_size, end, end_size, options)
Call ==
    /\ res = NoResult
    /\ res' = CallArrow(inp)
    /\ UNCHANGED <<utilVars, inp, resFlip, pageVars, changes, edgeVars, allVars>>

\* The same call with options.flip negated.
CallFlipped ==
    /\ res # NoResult
    /\ resFlip = NoResult
    /\ resFlip' = CallArrow(Flipped(inp))
    /\ UNCHANGED <<utilVars, inp, res, pageVars, changes, edgeVars, allVars>>

NextArrow == Call \/ CallFlipped

SpecArrow == InitArrow /\ [][NextArrow]_vars

\* ------------------------------------------------------------------------
\* graph_data.rs, dot_renderer.rs: the (sub)graphs of a DOT text and their
\* layout direction
\* ------------------------------------------------------------------------

\* A string is the sequence of its parts between hyphens: "a-b" is
\* <<"a", "b">> and "" is <<>>.  format!("{}-{}", p, q) is p \o q.

\* The statements of the parsed text that parse_statements looks at: a node
\* statement and a subgraph statement with its own statements.
NodeStmt(id) == [kind |-> "node", id |-> id, stmts |-> <<>>]

SubgraphStmt(stmts) == [kind |-> "subgraph", id |-> "", stmts |-> stmts]

\* struct GraphData, without label, style and edges.
GraphData(id, nodes, subgraphs) == [id |-> id, nodes |-> nodes, subgraphs |-> subgraphs]

\* format!("cluster_{}", graph.subgraphs.len()), for the counts a graph of
\* the model reaches.
ClusterId(n) ==
    <<<<"cluster_0", "cluster_1", "cluster_2", "cluster_3", "cluster_4", "cluster_5">>[n + 1]>>

\* Parse statements to build the graph structure: the graph after the
\* statements from position i on.
RECURSIVE parse_statements(_, _, _, _)
parse_statements(stmts, i, graph, path_prefix) ==
    IF i > Len(stmts) THEN graph
    ELSE IF stmts[i].kind = "node"
    THEN parse_statements(stmts, i + 1,
             [graph EXCEPT !.nodes = Append(@, [id |-> path_prefix \o <<stmts[i].id>>])],
             path_prefix)
    ELSE parse_statements(stmts, i + 1,
             [graph EXCEPT !.subgraphs =
                 Append(@, parse_statements(stmts[i].stmts, 1,
                               GraphData(ClusterId(Len(graph.subgraphs)), <<>>, <<>>),
                               path_prefix \o ClusterId(Len(graph.subgraphs))))],
             path_prefix)

\* GraphData::from_ast: the graph "G" of the statements.
from_ast(stmts) == parse_statements(stmts, 1, GraphData(<<"G">>, <<>>, <<>>), <<>>)

\* props.graph.id.matches('-').count()
nesting_level(graph) == IF graph.id = <<>> THEN 0 ELSE Len(graph.id) - 1

\* Alternate flex-row and flex-col based on nesting level.
flex_direction(graph) == IF nesting_level(graph) % 2 = 0 THEN "flex-row" ELSE "flex-col"

\* The flattening of a sequence of sequences.
RECURSIVE Flatten(_)
Flatten(seqs) == IF seqs = <<>> THEN <<>> ELSE Head(seqs) \o Flatten(Tail(seqs))

\* fn GraphContent, expanded: the container of the graph, with the depth at
\* which it is nested, then the containers of its subgraphs.
RECURSIVE GraphContent(_, _)
GraphContent(graph, depth) ==
    <<[id |-> graph.id, depth |-> depth, flex_direction |-> flex_direction(graph)]>>
    \o Flatten([k \in 1..Len(graph.subgraphs) |-> GraphContent(graph.subgraphs[k], depth + 1)])

\* ------------------------------------------------------------------------
\* The utility functions on their own: one call each
\* ------------------------------------------------------------------------

\* The angles of the calls are the multiples of AngleStep (PI / 96, so that
\* PI / 4 and PI / 2 are among them), from 0 to MaxAngle steps.
AngleStep == PI \div 96

MaxAngle == 191

Angles == {k * AngleStep : k \in 0..MaxAngle}

\* Rectangles <<x, y, w, h>> in length units: the first of a pair is fixed,
\* the second shifts across it, apart from it, touching it and over it.
RectA == <<10, 10, 20, 10>>

RectShifts == {-30, -20, -10, 0, 10, 20, 30}

RectSizes == {<<20, 10>>, <<10, 20>>, <<0, 0>>}

\* The values and ranges handed to modulate.
ModulateValues == {-50 * SC, 0, 500, 750, 900, SC, 25 * SC, 50 * SC, 425 * SC, 900 * SC}

ModulateFrom == {<<0, SC>>, <<750, SC>>, <<50 * SC, 800 * SC>>, <<SC, 0>>}

ModulateTo == {<<0, SC>>, <<SC, 0>>, <<PI \div 8, 0>>, <<0, PI \div 2>>, <<0, 0>>, <<250, 250>>}

\* The corner radii of the rounded rectangle RectA, in length units.
RayRadii == {0, 2, 3}

\* The coordinates of the end points of the segments tested against the
\* rectangle SegRect, in length units: before it, on its sides, inside it and
\* behind it.
SegCoords == {0, 10, 15, 20, 30}

SegRect == BoundingBox(10 * SC, 10 * SC, 10 * SC, 10 * SC)

\* The subgraphs nested in one another of a text, and the statements of a
\* graph of it.
MaxDepth == 3

MaxStmts == 3

\* A subgraph that holds a node and, depth - 1 levels deep, subgraphs nested
\* in one another.
RECURSIVE Nest(_)
Nest(depth) ==
    SubgraphStmt(IF depth = 1 THEN <<NodeStmt("n")>>
                 ELSE <<NodeStmt("n"), Nest(depth - 1)>>)

\* The statement lists of the texts: up to MaxStmts statements, each a node
\* or a nest of subgraphs.
StmtLists ==
    UNION {[1..k -> {NodeStmt("n")} \cup {Nest(d) : d \in 1..MaxDepth}] : k \in 0..MaxStmts}

UtilCalls ==
    {[fn |-> "get_intermediate", angle |-> a] : a \in Angles}
    \cup {[fn |-> "DotGraph", stmts |-> stmts] : stmts \in StmtLists}
    \cup {[fn |-> "segment_intersects_rect",
           seg |-> Segment(<<x0 * SC, y0 * SC>>, <<x1 * SC, y1 * SC>>), rect |-> SegRect] :
             x0 \in SegCoords, y0 \in SegCoords, x1 \in SegCoords, y1 \in SegCoords}
    \cup {[fn |-> "get_ray_rounded_rectangle_intersection", angle |-> a, r |-> r * SC,
           rect |-> <<RectA[1] * SC, RectA[2] * SC, RectA[3] * SC, RectA[4] * SC>>] :
             a \in Angles, r \in RayRadii}
    \cup {[fn |-> "rot", angle |-> a, flip |-> f] : a \in Angles, f \in BOOLEAN}
    \cup {[fn |-> "do_rectangles_collide",
           a |-> <<RectA[1] * SC, RectA[2] * SC, RectA[3] * SC, RectA[4] * SC>>,
           b |-> <<(RectA[1] + dx) * SC, (RectA[2] + dy) * SC, sz[1] * SC, sz[2] * SC>>] :
             dx \in RectShifts, dy \in RectShifts, sz \in RectSizes}
    \cup {[fn |-> "modulate", value |-> v, range_a |-> ra, range_b |-> rb] :
             v \in ModulateValues, ra \in ModulateFrom, rb \in ModulateTo}

InitUtil ==
    /\ util \in UtilCalls
    /\ out = NoOut
    /\ page = NoPage
    /\ last = NoPass
    /\ changes = 0
    /\ SolverIdle
    /\ EdgeIdle
    /\ AllIdle

\* get_intermediate(angle_center) and the snap of card that follows it.
CallIntermediate ==
    /\ util.fn = "get_intermediate"
    /\ ~out.done
    /\ out' = [done |-> TRUE, value |-> get_intermediate(util.angle),
               card |-> arrow_card(get_intermediate(util.angle))]
    /\ UNCHANGED <<util, page, last, changes, solverVars, edgeVars, allVars>>

\* rot of get_box_to_box_arrow for a chord angle and a flip.
CallRot ==
    /\ util.fn = "rot"
    /\ ~out.done
    /\ out' = [done |-> TRUE, value |-> arrow_rot(util.angle, util.flip),
               sector |-> get_sector(util.angle, 8)]
    /\ UNCHANGED <<util, page, last, changes, solverVars, edgeVars, allVars>>

\* do_rectangles_collide(a, b) and do_rectangles_collide(b, a)
CallCollide ==
    /\ util.fn = "do_rectangles_collide"
    /\ ~out.done
    /\ out' = [done |-> TRUE,
               value |-> do_rectangles_collide(util.a[1], util.a[2], util.a[3], util.a[4],
                                               util.b[1], util.b[2], util.b[3], util.b[4]),
               swapped |-> do_rectangles_collide(util.b[1], util.b[2], util.b[3], util.b[4],
                                                 util.a[1], util.a[2], util.a[3], util.a[4])]
    /\ UNCHANGED <<util, page, last, changes, solverVars, edgeVars, allVars>>

\* modulate(value, range_a, range_b, true)
CallModulate ==
    /\ util.fn = "modulate"
    /\ ~out.done
    /\ out' = [done |-> TRUE,
               value |-> modulate(util.value, util.range_a, util.range_b, TRUE),
               unclamped |-> modulate(util.value, util.range_a, util.range_b, FALSE)]
    /\ UNCHANGED <<util, page, last, changes, solverVars, edgeVars, allVars>>

\* The ray from the center of a rectangle: its origin.
RayOrigin(rect) == Pos2(rect[1] + rect[3] \div 2, rect[2] + rect[4] \div 2)

\* get_ray_rounded_rectangle_intersection for the ray from the center of the
\* rectangle along get_delta(angle), as the solver casts it.
CallRay ==
    /\ util.fn = "get_ray_rounded_rectangle_intersection"
    /\ ~out.done
    /\ out' = [done |-> TRUE,
               value |-> get_ray_rounded_rectangle_intersection(
                             RayOrigin(util.rect).x, RayOrigin(util.rect).y,
                             get_delta(util.angle)[1], get_delta(util.angle)[2],
                             util.rect[1], util.rect[2], util.rect[3], util.rect[4], util.r)]
    /\ UNCHANGED <<util, page, last, changes, solverVars, edgeVars, allVars>>

\* segment_intersects_rect(seg, rect)
CallSegmentRect ==
    /\ util.fn = "segment_intersects_rect"
    /\ ~out.done
    /\ out' = [done |-> TRUE, value |-> segment_intersects_rect(util.seg, util.rect)]
    /\ UNCHANGED <<util, page, last, changes, solverVars, edgeVars, allVars>>

\* fn DotGraph: the text is parsed and GraphContent renders its graph; the
\* containers are those of the expanded (sub)graphs.
CallDotGraph ==
    /\ util.fn = "DotGraph"
    /\ ~out.done
    /\ out' = [done |-> TRUE, value |-> GraphContent(from_ast(util.stmts), 0),
               graph |-> from_ast(util.stmts)]
    /\ UNCHANGED <<util, page, last, changes, solverVars, edgeVars, allVars>>

NextUtil ==
    \/ CallIntermediate \/ CallRot \/ CallCollide \/ CallModulate
    \/ CallRay \/ CallSegmentRect \/ CallDotGraph

SpecUtil == InitUtil /\ [][NextUtil]_vars

\* ------------------------------------------------------------------------
\* One pass of generate_arrow_path_safe over a page
\* ------------------------------------------------------------------------

\* The edge drawn: from node a to node b.
TheEdge == [id |-> "a-b", source |-> "a", target |-> "b"]

\* The node_ids handed to the edge arena.
TheNodeIds == <<"a", "b", "c">>

\* The distance of the edge arena from the top of the page, in length units,
\* on the pages where a header precedes it.
ArenaTop == 40

\* Where node b may lie in the arena, with its size: <<left, top, width,
\* height>>.
SpotsB == {<<90, 40, 20, 10>>, <<90, 75, 20, 10>>, <<20, 100, 20, 10>>, <<70, 5, 20, 10>>,
           <<135, 95, 60, 10>>, <<60, 85, 60, 10>>}

\* Where node c may lie in the arena: <<left, top>>.
SpotsC == {<<50, 28>>, <<50, 40>>, <<50, 52>>, <<55, 62>>, <<14, 65>>, <<40, 70>>,
           <<60, 20>>, <<130, 70>>, <<55, 50>>}

\* The size of node c.
SizeC == <<12, 20>>

\* An element of the arena at <<left, top>> there, on a page whose arena lies
\* at (0, top_of_arena).
Placed(spot, width, height, top_of_arena) ==
    Element(spot[1] * SC, (spot[2] + top_of_arena) * SC, width * SC, height * SC)

\* Node a at (10, 40) in the arena, node b and (when c_there) node c at their
\* spots; the arena at the top of the page or ArenaTop below it.
PageOf(spot_b, spot_c, c_there, top_of_arena) ==
    [nodes |-> [n \in NodeIds |->
                   IF n = "a" THEN Placed(<<10, 40>>, 20, 10, top_of_arena)
                   ELSE IF n = "b" THEN Placed(spot_b, spot_b[3], spot_b[4], top_of_arena)
                   ELSE IF c_there THEN Placed(spot_c, SizeC[1], SizeC[2], top_of_arena)
                   ELSE NoElement],
     arena |-> Element(0, top_of_arena * SC, 200 * SC, 200 * SC),
     content |-> Element(0, top_of_arena * SC, 200 * SC, 200 * SC)]

\* Two nodes side by side in an arena at the page origin: a at (0, 0) and b
\* at (300, 0), both 100 x 50; node c is not mounted.
SideBySidePage ==
    [nodes |-> [n \in NodeIds |->
                   IF n = "a" THEN Element(0, 0, 100 * SC, 50 * SC)
                   ELSE IF n = "b" THEN Element(300 * SC, 0, 100 * SC, 50 * SC)
                   ELSE NoElement],
     arena |-> Element(0, 0, 400 * SC, 200 * SC),
     content |-> Element(0, 0, 400 * SC, 200 * SC)]

Pages ==
    {PageOf(spot_b, spot_c, c_there, top_of_arena) :
        spot_b \in SpotsB, spot_c \in SpotsC, c_there \in BOOLEAN,
        top_of_arena \in {0, ArenaTop}}
    \cup {SideBySidePage}

InitPath ==
    /\ page \in Pages
    /\ last = NoPass
    /\ changes = 0
    /\ SolverIdle
    /\ EdgeIdle
    /\ AllIdle
    /\ UtilIdle

\* generate_arrow_path_safe(&edge, &node_ids)
GeneratePath ==
    /\ last = NoPass
    /\ last' = generate_arrow_path_safe(page, TheEdge, TheNodeIds)
    /\ UNCHANGED <<utilVars, page, changes, solverVars, edgeVars, allVars>>

NextPath == GeneratePath

SpecPath == InitPath /\ [][NextPath]_vars

\* ------------------------------------------------------------------------
\* The page under the components: nodes are mounted and unmounted
\* ------------------------------------------------------------------------

\* The changes of the page a behavior may hold.
MaxChanges == 2

\* The page with its three nodes mounted.
TheLayout == PageOf(<<90, 40, 20, 10>>, <<50, 28>>, TRUE, ArenaTop)

\* The pages a component may be mounted on: every node is there, or the
\* target of the edge is not there yet.
MountPages == {TheLayout, [TheLayout EXCEPT !.nodes["b"] = NoElement]}

\* The element of node n appears on the page.
MountNode(n) ==
    /\ changes < MaxChanges
    /\ ~page.nodes[n].present
    /\ page' = [page EXCEPT !.nodes[n] = TheLayout.nodes[n]]
    /\ changes' = changes + 1
    /\ UNCHANGED <<utilVars, last, solverVars, edgeVars, allVars>>

\* The element of node n leaves the page.
UnmountNode(n) ==
    /\ changes < MaxChanges
    /\ page.nodes[n].present
    /\ page' = [page EXCEPT !.nodes[n] = NoElement]
    /\ changes' = changes + 1
    /\ UNCHANGED <<utilVars, last, solverVars, edgeVars, allVars>>

\* ------------------------------------------------------------------------
\* EdgeRenderer: render, spawn the delayed task, set svg_data
\* ------------------------------------------------------------------------

\* The renders of the component that are counted: the count stays at
\* MaxRenders from then on, the component goes on rendering.
MaxRenders == 3

\* A panic in the pass ended the program.
Dead == last.ret = "panic"

InitEdge ==
    /\ variant \in {"lib", "components"}
    /\ page \in MountPages
    /\ last = NoPass
    /\ svg_data = None
    /\ shown = None
    /\ dirty = TRUE
    /\ timers = 0
    /\ renders = 0
    /\ changes = 0
    /\ SolverIdle
    /\ AllIdle
    /\ UtilIdle

\* fn EdgeRenderer: the body of the component spawns the task and draws
\* what svg_data holds.
Render ==
    /\ variant # "none" /\ ~Dead
    /\ dirty
    /\ timers' = timers + 1
    /\ shown' = svg_data
    /\ dirty' = FALSE
    /\ renders' = IF renders < MaxRenders THEN renders + 1 ELSE renders
    /\ UNCHANGED <<utilVars, variant, svg_data, page, last, changes, solverVars, allVars>>

\* The pass of the task: generate_arrow_path_safe of the variant.
edge_pass(v, pg) ==
    IF v = "lib" THEN generate_arrow_path_safe(pg, TheEdge, TheNodeIds)
    ELSE components_generate_arrow_path_safe(pg, TheEdge)

\* What the task does with the result of its pass: Ok(data) is stored; on
\* Err the task of src/edge_renderer.rs stores None and the task of
\* src/components/edge_renderer.rs logs the error.
edge_task_done(result) ==
    /\ last' = result
    /\ svg_data' = IF result.ret = "ok" THEN Some(result)
                   ELSE IF result.ret = "err" /\ variant = "lib" THEN None
                   ELSE svg_data
    /\ dirty' = (dirty \/ result.ret = "ok" \/ (result.ret = "err" /\ variant = "lib"))

\* The spawned task, once its timeout has elapsed.
TaskRun ==
    /\ variant # "none" /\ ~Dead
    /\ timers > 0
    /\ timers' = timers - 1
    /\ edge_task_done(edge_pass(variant, page))
    /\ UNCHANGED <<utilVars, variant, shown, renders, page, changes, solverVars, allVars>>

NextEdge ==
    \/ Render
    \/ TaskRun
    \/ \E n \in {"a", "b"} : MountNode(n)
    \/ \E n \in {"a", "b"} : UnmountNode(n)

SpecEdge == InitEdge /\ [][NextEdge]_vars

\* The timeout of a spawned task elapses: the step of TaskRun as far as
\* timers goes.  Every step of NextEdge that lowers timers is a TaskRun.
TimerElapses ==
    /\ variant # "none" /\ ~Dead
    /\ timers > 0
    /\ timers' = timers - 1

\* The scheduler renders a component that is marked dirty, and the timeout of
\* a spawned task elapses: neither step is postponed forever.
SpecEdgeFair == SpecEdge /\ WF_vars(Render) /\ WF_timers(TimerElapses)

\* ------------------------------------------------------------------------
\* AllEdgesWithMounted: the effects, the tasks they spawn and arrow_paths
\* ------------------------------------------------------------------------

\* The tasks a behavior may spawn.
MaxTasks == 4

\* The resize events a behavior may hold.
MaxResizes == 2

\* The edges of the component.
TheEdges == <<TheEdge>>

InitAll ==
    /\ page \in MountPages
    /\ last = NoPass
    /\ initial_load = TRUE
    /\ window_size = 0
    /\ effects = {"listen", "size"}
    /\ listening = FALSE
    /\ tasks = <<>>
    /\ arrow_paths = NoPaths
    /\ changes = 0
    /\ SolverIdle
    /\ EdgeIdle
    /\ UtilIdle

\* A pass has run.
PassRan == \E i \in 1..Len(tasks) : tasks[i].state = "done"

\* calculate_arrows(): spawn the task.  early tells that no pass had run
\* when the task was spawned.
calculate_arrows(ts) == Append(ts, [state |-> "spawned", early |-> ~PassRan])

\* The first use_effect: install the resize listener, calculate arrows
\* initially.
RunListen ==
    /\ ~Dead
    /\ "listen" \in effects
    /\ Len(tasks) < MaxTasks
    /\ listening' = TRUE
    /\ tasks' = calculate_arrows(tasks)
    /\ effects' = effects \ {"listen"}
    /\ UNCHANGED <<utilVars, initial_load, window_size, arrow_paths, page, last, changes,
                   solverVars, edgeVars>>

\* The second use_effect: read window_size, calculate arrows.  It runs after
\* the first one and again after every change of window_size.
RunSize ==
    /\ ~Dead
    /\ "size" \in effects /\ "listen" \notin effects
    /\ Len(tasks) < MaxTasks
    /\ tasks' = calculate_arrows(tasks)
    /\ effects' = effects \ {"size"}
    /\ UNCHANGED <<utilVars, initial_load, window_size, listening, arrow_paths, page, last, changes,
                   solverVars, edgeVars>>

\* update_size, the listener of the resize event: window_size.set((w, h)).
Resize ==
    /\ ~Dead
    /\ listening
    /\ window_size < MaxResizes
    /\ window_size' = window_size + 1
    /\ effects' = effects \cup {"size"}
    /\ UNCHANGED <<utilVars, initial_load, listening, tasks, arrow_paths, page, last, changes,
                   solverVars, edgeVars>>

\* The paths of a pass: the edges whose generate_arrow_path_safe was Ok.
new_paths(result) ==
    IF result.ret = "ok" THEN <<[id |-> TheEdges[1].id, data |-> result]>> ELSE <<>>

\* The rest of the task i from initial_load.set(false) on.
all_task_done(i, result) ==
    /\ initial_load' = FALSE
    /\ last' = result
    /\ tasks' = [tasks EXCEPT ![i].state = "done"]
    /\ arrow_paths' = IF result.ret = "panic" THEN arrow_paths
                      ELSE [paths |-> new_paths(result), by |-> i]
    /\ UNCHANGED <<utilVars, window_size, effects, listening, page, changes, solverVars, edgeVars>>

\* Tasks are polled in the order they were spawned.
FirstIn(i, state) ==
    /\ i \in 1..Len(tasks)
    /\ tasks[i].state = state
    /\ \A j \in 1..(i - 1) : tasks[j].state # state

\* The task i starts while initial_load holds: it awaits its timeout.
TaskWait(i) ==
    /\ ~Dead
    /\ FirstIn(i, "spawned")
    /\ initial_load
    /\ tasks' = [tasks EXCEPT ![i].state = "waiting"]
    /\ UNCHANGED <<utilVars, initial_load, window_size, effects, listening, arrow_paths, page, last,
                   changes, solverVars, edgeVars>>

\* The task i starts after initial_load was cleared: it runs its pass at once.
TaskRunNow(i) ==
    /\ ~Dead
    /\ FirstIn(i, "spawned")
    /\ ~initial_load
    /\ all_task_done(i, components_generate_arrow_path_safe(page, TheEdges[1]))

\* The timeout of the task i elapses: it runs its pass.  The timeouts are
\* equal, so they elapse in the order the tasks began to wait, and a task
\* that was spawned is polled before a timeout elapses.
TimerFire(i) ==
    /\ ~Dead
    /\ FirstIn(i, "waiting")
    /\ \A j \in 1..Len(tasks) : tasks[j].state # "spawned"
    /\ all_task_done(i, components_generate_arrow_path_safe(page, TheEdges[1]))

NextAll ==
    \/ RunListen
    \/ RunSize
    \/ Resize
    \/ \E i \in 1..MaxTasks : TaskWait(i)
    \/ \E i \in 1..MaxTasks : TaskRunNow(i)
    \/ \E i \in 1..MaxTasks : TimerFire(i)
    \/ \E n \in {"a", "b"} : MountNode(n)
    \/ \E n \in {"a", "b"} : UnmountNode(n)

SpecAll == InitAll /\ [][NextAll]_vars

\* ------------------------------------------------------------------------
\* Properties of the solver
\* ------------------------------------------------------------------------

\* The resolution of the fixed-point numbers, the tolerance of the geometric
\* tests (the rounding tolerance of the floats is far below it).
Tol == SC \div 1000

\* The start and the end box of a call, inflated by pad_start and pad_end.
PaddedStart(i) ==
    [x |-> i.start.x - i.options.pad_start, y |-> i.start.y - i.options.pad_start,
     w |-> i.start_size.x + 2 * i.options.pad_start,
     h |-> i.start_size.y + 2 * i.options.pad_start]

PaddedEnd(i) ==
    [x |-> i.end.x - i.options.pad_end, y |-> i.end.y - i.options.pad_end,
     w |-> i.end_size.x + 2 * i.options.pad_end,
     h |-> i.end_size.y + 2 * i.options.pad_end]

Center0(i) == Pos2(i.start.x + i.start_size.x \div 2, i.start.y + i.start_size.y \div 2)

Center1(i) == Pos2(i.end.x + i.end_size.x \div 2, i.end.y + i.end_size.y \div 2)

\* The two padded rectangles share no point (they may not even touch).
Apart(a, b) ==
    a.x + a.w < b.x \/ b.x + b.w < a.x \/ a.y + a.h < b.y \/ b.y + b.h < a.y

\* p lies in the closed rectangle b.
InClosed(p, b) ==
    /\ p.x >= b.x - Tol /\ p.x <= b.x + b.w + Tol
    /\ p.y >= b.y - Tol /\ p.y <= b.y + b.h + Tol

\* p lies on one of the four sides of the rectangle b.
OnBoundary(p, b) ==
    /\ InClosed(p, b)
    /\ \/ Abs(p.x - b.x) <= Tol \/ Abs(p.x - (b.x + b.w)) <= Tol
       \/ Abs(p.y - b.y) <= Tol \/ Abs(p.y - (b.y + b.h)) <= Tol

Returned(r) == r.ret \in {"degenerate", "straight", "curved"}

PositiveSizes(i) ==
    /\ i.start_size.x > 0 /\ i.start_size.y > 0
    /\ i.end_size.x > 0 /\ i.end_size.y > 0

\* C1: for boxes with positive sizes whose padded rectangles do not overlap
\* and whose centers differ, and for every option set, the returned start
\* lies on the boundary of the padded start box and the returned end on the
\* boundary of the padded end box.
C1_StartEndOnBoundary ==
    (/\ Returned(res)
     /\ PositiveSizes(inp)
     /\ Apart(PaddedStart(inp), PaddedEnd(inp))
     /\ Center0(inp) # Center1(inp))
    => /\ OnBoundary(res.start, PaddedStart(inp))
       /\ OnBoundary(res.end, PaddedEnd(inp))

\* C1, without padding: the same statement for the calls with pad_start =
\* pad_end = 0, which the program satisfies.
C1_OnBoundaryUnpadded ==
    (/\ Returned(res)
     /\ inp.start_size.x >= 0 /\ inp.start_size.y >= 0
     /\ inp.end_size.x >= 0 /\ inp.end_size.y >= 0
     /\ inp.options.pad_start = 0 /\ inp.options.pad_end = 0
     /\ Apart(PaddedStart(inp), PaddedEnd(inp))
     /\ Center0(inp) # Center1(inp))
    => /\ OnBoundary(res.start, PaddedStart(inp))
       /\ OnBoundary(res.end, PaddedEnd(inp))

\* C5: a call with non-negative sizes never panics: it always returns a
\* result tuple.
C5_NeverPanics == res # NoResult => Returned(res)

\* C5, for boxes of positive width and height.
C5_PositiveSizesReturn ==
    (res # NoResult /\ PositiveSizes(inp)) => Returned(res)

\* The direction from s to e when both have the same x: straight down
\* (PI/2), straight up (-PI/2), or 0 when the points coincide.
VerticalAngle(s, e) ==
    IF e.y > s.y THEN PI \div 2 ELSE IF e.y < s.y THEN -(PI \div 2) ELSE 0

\* The fixed fallback of a call: from the middle of the top side of the
\* padded start box to the middle of the top side of the padded end box.
IsFallback(r, i) ==
    /\ r.ret = "degenerate"
    /\ r.start = Pos2(Center0(i).x, PaddedStart(i).y)
    /\ r.end = Pos2(Center1(i).x, PaddedEnd(i).y)
    /\ r.control = Pos2((r.start.x + r.end.x) \div 2, (r.start.y + r.end.y) \div 2)
    /\ r.angle_start = VerticalAngle(r.start, r.end)
    /\ r.angle_end = VerticalAngle(r.start, r.end)
    /\ r.angle_center = VerticalAngle(r.start, r.end)

\* C4: whenever the two boxes have the same center, for every option set
\* (whatever the bow, stretch, padding, flip and straights) the call returns
\* the fixed fallback - start and end at the middle of the top sides of the
\* padded boxes, control their midpoint, the three angles the direction
\* from start to end - and takes no other branch.
C4_SameCenterFallback ==
    Center0(inp) = Center1(inp)
    => /\ res # NoResult => IsFallback(res, inp)
       /\ resFlip # NoResult => IsFallback(resFlip, Flipped(inp))

\* C4 happens: a call with padding on boxes of one center and different
\* heights has returned, as has the call with flip negated.
C4_Witness ==
    /\ Center0(inp) = Center1(inp)
    /\ inp.options.pad_start > 0
    /\ inp.options.pad_end > inp.options.pad_start
    /\ inp.start_size.y # inp.end_size.y
    /\ res.ret = "degenerate"
    /\ resFlip.ret = "degenerate"
    /\ res.start # res.end

\* C6: for boxes with distinct centers and every option set, the control
\* points returned with flip and with flip negated lie strictly on opposite
\* sides of the chord.
C6_OppositeSides ==
    (/\ Center0(inp) # Center1(inp)
     /\ Returned(res) /\ Returned(resFlip))
    => ControlSide(res) * ControlSide(resFlip) = -1

\* C6, amended: the same for a curved arrow (not the straight shortcut)
\* between boxes whose padded rectangles do not collide, when the arc is
\* not zero.
C6_OppositeSidesWhenApart ==
    (/\ Center0(inp) # Center1(inp)
     /\ res.ret = "curved" /\ resFlip.ret = "curved"
     /\ ~res.is_colliding
     /\ res.arc # 0)
    => ControlSide(res) * ControlSide(resFlip) = -1

\* C6 happens: both calls returned a curved arrow between boxes apart, with
\* a bow, and the control points lie on opposite sides.
C6_Witness ==
    /\ res.ret = "curved" /\ resFlip.ret = "curved"
    /\ ~res.is_colliding
    /\ res.arc # 0
    /\ inp.options.bow # 0
    /\ ControlSide(res) = -ControlSide(resFlip)
    /\ ControlSide(res) # 0

\* ------------------------------------------------------------------------
\* Properties of a pass: the choice of the flip
\* ------------------------------------------------------------------------

\* The flip the pass chose, as an index of its candidates.
Chosen == IF last.use_flip THEN 2 ELSE 1

\* C2: the pass returns flip = true exactly when the count of the flip = true
\* candidate, evaluated second, is strictly lower than the count of the
\* flip = false candidate (equal counts give flip = false), and the route it
\* emits is the route of the candidate with the returned flip.
C2_StrictlyLowerCountWins ==
    last.ret = "ok" =>
        /\ last.use_flip <=> last.candidates[2].collisions < last.candidates[1].collisions
        /\ last.route = last.candidates[Chosen].route

\* C2 happens: the flip = true candidate had strictly fewer collisions and
\* the pass emitted its route.
C2_Witness ==
    /\ last.ret = "ok"
    /\ last.candidates[2].collisions < last.candidates[1].collisions
    /\ last.use_flip
    /\ last.route = last.candidates[2].route
    /\ last.route # last.candidates[1].route

\* The rectangle of node n relative to the edge arena: the frame of the
\* start and end boxes of the route.
ArenaRect(n) ==
    BoundingBox(page.nodes[n].left - page.arena.left, page.nodes[n].top - page.arena.top,
                page.nodes[n].width, page.nodes[n].height)

\* The sign of the turn p, q, r: exact.
Turn(p, q, r) ==
    SSub(SProd(q[1] - p[1], r[2] - p[2]), SProd(q[2] - p[2], r[1] - p[1])).s

\* q lies in the bounding box of p and r.
Within(p, q, r) ==
    /\ Min2(p[1], r[1]) <= q[1] /\ q[1] <= Max2(p[1], r[1])
    /\ Min2(p[2], r[2]) <= q[2] /\ q[2] <= Max2(p[2], r[2])

\* The closed segments p1-p2 and q1-q2 have a point in common.
SegmentsMeet(p1, p2, q1, q2) ==
    \/ Turn(p1, p2, q1) # Turn(p1, p2, q2) /\ Turn(q1, q2, p1) # Turn(q1, q2, p2)
    \/ Turn(p1, p2, q1) = 0 /\ Within(p1, q1, p2)
    \/ Turn(p1, p2, q2) = 0 /\ Within(p1, q2, p2)
    \/ Turn(q1, q2, p1) = 0 /\ Within(q1, p1, q2)
    \/ Turn(q1, q2, p2) = 0 /\ Within(q1, p2, q2)

\* The closed segment p-q and the closed rectangle b have a point in common.
SegmentMeetsRect(p, q, b) ==
    \/ contains_point(b, p[1], p[2])
    \/ SegmentsMeet(p, q, <<b.x, b.y>>, <<b.x + b.width, b.y>>)
    \/ SegmentsMeet(p, q, <<b.x, b.y>>, <<b.x, b.y + b.height>>)
    \/ SegmentsMeet(p, q, <<b.x + b.width, b.y>>, <<b.x + b.width, b.y + b.height>>)
    \/ SegmentsMeet(p, q, <<b.x, b.y + b.height>>, <<b.x + b.width, b.y + b.height>>)

\* The two-segment path start -> control, control -> end of a route crosses b.
PathCrosses(route, b) ==
    \/ SegmentMeetsRect(<<route.start.x, route.start.y>>,
                        <<route.control.x, route.control.y>>, b)
    \/ SegmentMeetsRect(<<route.control.x, route.control.y>>,
                        <<route.end.x, route.end.y>>, b)

\* The rectangles a and b overlap.
Overlap(a, b) ==
    /\ a.x < b.x + b.width /\ b.x < a.x + a.width
    /\ a.y < b.y + b.height /\ b.y < a.y + a.height

\* The center of b, doubled.
Center2(b) == <<2 * b.x + b.width, 2 * b.y + b.height>>

\* b with its coordinates doubled.
Doubled(b) == BoundingBox(2 * b.x, 2 * b.y, 2 * b.width, 2 * b.height)

\* The three nodes are on the page and pairwise apart, and the line between
\* the centers of the source and of the target crosses the third.
ThirdInTheWay ==
    /\ page.nodes["c"].present
    /\ ~Overlap(ArenaRect("a"), ArenaRect("b"))
    /\ ~Overlap(ArenaRect("a"), ArenaRect("c"))
    /\ ~Overlap(ArenaRect("b"), ArenaRect("c"))
    /\ SegmentMeetsRect(Center2(ArenaRect("a")), Center2(ArenaRect("b")),
                        Doubled(ArenaRect("c")))

\* C3: with three rectangles pairwise apart and the third on the line
\* between source and target, when the path of one of the two flips does not
\* cross the third rectangle, the path of the chosen flip does not cross it.
C3_ChosenPathAvoidsThird ==
    (/\ last.ret = "ok"
     /\ ThirdInTheWay
     /\ \E k \in 1..2 : ~PathCrosses(last.candidates[k].route, ArenaRect("c")))
        => ~PathCrosses(last.candidates[Chosen].route, ArenaRect("c"))

\* The node_ids other than the source and the target of the edge.
OtherNodeIds == SelectSeq(TheNodeIds, LAMBDA n : n \notin {TheEdge.source, TheEdge.target})

\* The count of candidate k over the rectangles of the other nodes alone.
CountOverOthers(k) ==
    arrow_collision_count(build_quadtree(page, OtherNodeIds, 1, <<>>),
        build_arrow_segments(last.candidates[k].route.start, last.candidates[k].route.control,
                             last.candidates[k].route.end))

\* C10: the count of each flip is the count over the rectangles of the nodes
\* other than the source and the target of the edge: the two own boxes add
\* nothing to it.
C10_OwnBoxesNotCounted ==
    last.ret = "ok" =>
        \A k \in 1..2 : last.candidates[k].collisions = CountOverOthers(k)

\* ------------------------------------------------------------------------
\* Properties of the components
\* ------------------------------------------------------------------------

\* The pass did not find the element of the source or of the target.
NodeNotFound ==
    /\ last.ret = "err"
    /\ last.err \in {"Source node not found", "Target node not found"}

\* C7: when the last pass did not find the element of the source or of the
\* target node, it returned the error without a route, and the edge is not
\* drawn: svg_data holds nothing, and once the component has rendered
\* nothing of an earlier pass is on display.
C7_MissingNodeNotDrawn ==
    NodeNotFound =>
        /\ last.candidates = <<>> /\ last.label = <<>>
        /\ ~svg_data.some
        /\ (~dirty => ~shown.some)

\* The passes run by tasks that were spawned before any pass had run: the
\* tasks of one burst of triggers.
BurstPasses == {i \in 1..Len(tasks) : tasks[i].early /\ tasks[i].state = "done"}

\* C8: the triggers that arrive before a pass has run (the mount and the
\* resize events that follow it) lead to one pass, not to one pass each.
C8_BurstOnePass == Cardinality(BurstPasses) <= 1

\* C9: the arrow paths on store are those of the task triggered last among
\* the tasks that have completed: a task triggered earlier that completes
\* later does not overwrite them.
C9_SupersededDiscarded ==
    \A i \in 1..Len(tasks) : tasks[i].state = "done" => arrow_paths.by >= i

\* ------------------------------------------------------------------------
\* Cardinality, rotation, collision test and modulate
\* ------------------------------------------------------------------------

\* The chord of the call is along an axis.
AxisAligned(a) == a % (PI \div 2) = 0

\* The chord of the call is exactly diagonal.
Diagonal(a) == a % (PI \div 2) = PI \div 4

\* C16: for every chord angle in [0, 2 * PI) the card returned by
\* get_intermediate is in [0, 1], is 0 when the chord is along an axis and 1
\* when it is exactly diagonal, and after the snap no card is strictly
\* between 0.85 and 1 other than 0.99.
C16_CardZeroOnAxesOneOnDiagonals ==
    (util.fn = "get_intermediate" /\ out.done /\ util.angle < PI2) =>
        /\ out.value >= 0 /\ out.value <= SC
        /\ AxisAligned(util.angle) => out.value = 0
        /\ Diagonal(util.angle) => out.value = SC
        /\ (out.card > 850 /\ out.card < SC) => out.card = 990

\* The octant of width PI / 4 an angle lies in, counted from angle 0.
Octant(a) == a \div (PI \div 4)

\* C18: rot is -1 or +1, the flip negates it, and for chord angles in
\* [0, 2 * PI) the unflipped rot is -1 in the even octants (the one starting
\* at angle 0 first) and +1 in the odd ones; the sector is
\* floor(8 * (0.5 + (a / 2pi mod 8))), octant + 4 on these angles.
C18_RotationAlternatesByOctant ==
    (util.fn = "rot" /\ out.done /\ util.angle < PI2) =>
        /\ out.value \in {-1, 1}
        /\ out.sector = Octant(util.angle) + 4
        /\ out.value = (IF Octant(util.angle) % 2 = 0 THEN -1 ELSE 1)
                        * (IF util.flip THEN -1 ELSE 1)

\* C18 witness: a flipped call in the second octant returned -1 and an
\* unflipped call in the first octant returned -1.
C18_Witness ==
    /\ util.fn = "rot" /\ out.done
    /\ util.flip /\ Octant(util.angle) = 1 /\ util.angle > PI \div 4
    /\ out.value = -1

\* C19: do_rectangles_collide is true exactly when each rectangle starts
\* strictly before the other ends on both axes, so rectangles that only
\* touch do not collide, and the result is the same with the two exchanged.
C19_CollideStrictAndSymmetric ==
    (util.fn = "do_rectangles_collide" /\ out.done) =>
        /\ out.value <=> /\ util.a[1] < util.b[1] + util.b[3]
                          /\ util.b[1] < util.a[1] + util.a[3]
                          /\ util.a[2] < util.b[2] + util.b[4]
                          /\ util.b[2] < util.a[2] + util.a[4]
        /\ out.value = out.swapped

\* C19 witness: the second rectangle has positive size and touches the first
\* along an edge, and the call returned false.
C19_Witness ==
    /\ util.fn = "do_rectangles_collide" /\ out.done
    /\ util.b[3] > 0 /\ util.b[4] > 0
    /\ util.b[1] = util.a[1] + util.a[3]
    /\ util.b[2] = util.a[2]
    /\ ~out.value

\* C20: with clamp = true and from_low # from_high, modulate returns the
\* affine remap of the value clamped into the closed interval between to_low
\* and to_high, whichever of the two is lower, and to_low when they are equal.
C20_ModulateClampsBothWays ==
    (util.fn = "modulate" /\ out.done /\ util.range_a[1] # util.range_a[2]) =>
        LET lo == Min2(util.range_b[1], util.range_b[2])
            hi == Max2(util.range_b[1], util.range_b[2])
        IN  /\ out.value >= lo /\ out.value <= hi
            /\ out.value = Max2(lo, Min2(hi, out.unclamped))
            /\ lo = hi => out.value = util.range_b[1]

\* C20 witness: a descending output range and a remap above it, clamped to
\* to_low.
C20_Witness ==
    /\ util.fn = "modulate" /\ out.done
    /\ util.range_b[1] > util.range_b[2]
    /\ out.unclamped > util.range_b[1]
    /\ out.value = util.range_b[1]

\* ------------------------------------------------------------------------
\* The branches of the solver
\* ------------------------------------------------------------------------

\* The two boxes of a call have identical bounds.
IdenticalBounds(i) == i.start = i.end /\ i.start_size = i.end_size

\* C13: for two boxes with identical bounds the call takes the branch
\* overlap_effect >= 0.5 and returns a curve that bows away from the chord:
\* the control point is off the chord from start to end.
C13_IdenticalBoundsBowAway ==
    (IdenticalBounds(inp) /\ res # NoResult) =>
        /\ res.ret = "curved"
        /\ res.overlap_effect >= 500
        /\ ControlSide(res) # 0

\* C13, amended: for two boxes with identical bounds the call takes the
\* zero-distance fallback, whose control point lies on the chord (start,
\* control and end are one point when the two paddings are equal); the
\* branch overlap_effect >= 0.5 is taken between colliding boxes with
\* distinct centers, and its control point is off the chord whenever start
\* and end differ.
C13_IdenticalBoundsFallbackElseBowAway ==
    /\ (IdenticalBounds(inp) /\ res # NoResult) =>
           /\ res.ret = "degenerate"
           /\ ControlSide(res) = 0
           /\ (inp.options.pad_start = inp.options.pad_end =>
                  res.control = res.start /\ res.end = res.start)
    /\ (res.ret = "curved" /\ res.overlap_effect >= 500) =>
           /\ res.is_colliding
           /\ Center0(inp) # Center1(inp)
           /\ res.start # res.end => ControlSide(res) # 0

\* C13 happens: a call on two boxes of positive size with identical bounds
\* returned the fallback, start, control and end one point.
C13_Witness ==
    /\ IdenticalBounds(inp)
    /\ PositiveSizes(inp)
    /\ res.ret = "degenerate"
    /\ res.control = res.start /\ res.end = res.start

\* v is w to within one length unit.
Near(v, w) == Abs(v - w) <= SC

C15_StraightOnlyOnAxes ==
    res.ret = "straight" =>
        /\ inp.options.straights
        /\ ~res.is_colliding
        /\ (Center0(inp).x = Center1(inp).x \/ Center0(inp).y = Center1(inp).y)

\* A call a caller should not make.
Malformed(i) ==
    \/ i.options.stretch_min > i.options.stretch_max
    \/ i.start_size.x < 0 \/ i.start_size.y < 0
    \/ i.end_size.x < 0 \/ i.end_size.y < 0

\* C17: a call with malformed options or inputs (stretch_min above
\* stretch_max, a negative width or height) fails with a configuration
\* error and never returns a curve.
C17_MalformedFailsFast ==
    (Malformed(inp) /\ res # NoResult) => ~Returned(res)

\* ------------------------------------------------------------------------
\* The label of an edge
\* ------------------------------------------------------------------------

\* Four times the displacement from the middle of the curve (the Bezier point
\* at t = 0.5, (start + 2 * control + end) / 4) to the label anchor.
LabelOffset4(p) ==
    Pos2(4 * p.label[1] - (p.route.start.x + 2 * p.route.control.x + p.route.end.x),
         4 * p.label[2] - (p.route.start.y + 2 * p.route.control.y + p.route.end.y))

\* Twice the displacement from the middle of the chord to the control point.
ControlOffset2(r) ==
    Pos2(2 * r.control.x - r.start.x - r.end.x, 2 * r.control.y - r.start.y - r.end.y)

\* The sign of the dot product of the two displacements, exact.
LabelDotControl(p) ==
    SAdd(SProd(LabelOffset4(p).x, ControlOffset2(p.route).x),
         SProd(LabelOffset4(p).y, ControlOffset2(p.route).y)).s

\* C11: whenever the control point is off the chord, the label anchor is on
\* the outer side of the curve: the displacement from the middle of the curve
\* to the label anchor points to the side of the chord the control point is
\* on (their dot product is positive).
C11_LabelOnControlSide ==
    (last.ret = "ok" /\ last.label # <<>> /\ ControlSide(last.route) # 0) =>
        LabelDotControl(last) > 0

\* The distance in y between the label anchor and the middle of the curve.
LabelDy(p) ==
    Abs(p.label[2] - (p.route.start.y + 2 * p.route.control.y + p.route.end.y) \div 4)

LengthTol == 5 * Tol

\* The length of the vector (dx, dy), rounded down: exact, where the squares
\* of get_distance lose the digits of a short vector.
ExactLength(dx, dy) == BSqrtIn(SAdd(SProd(dx, dx), SProd(dy, dy)).m, 0, IntMax \div 2)

\* The distance between two points.
Between(p, q) == ExactLength(q.x - p.x, q.y - p.y)

\* The length of the chord from start to end of a result.
ChordLength(r) == Between(r.start, r.end)

\* Twice the distance of the control point from the middle of the chord.
ControlDistance2(r) == ExactLength(ControlOffset2(r).x, ControlOffset2(r).y)

\* C22: when the padded boxes collide and a curve is returned, the arc is at
\* least 0.5 in absolute value and has the sign it had before (an arc of 0
\* becomes +0.5, an arc already beyond 0.5 is kept), and the control point is
\* at least half the chord length away from the middle of the chord.
C22_CollidingArcAtLeastHalf ==
    (res.ret = "curved" /\ res.is_colliding) =>
        /\ Abs(res.arc) >= 500
        /\ (res.arc_adjusted < 0 => res.arc = Min2(res.arc_adjusted, -500))
        /\ (res.arc_adjusted >= 0 => res.arc = Max2(res.arc_adjusted, 500))
        /\ ControlDistance2(res) + LengthTol >= ChordLength(res)

\* C22 happens: a curve between colliding boxes with distinct centers whose
\* negative arc, less than 0.5 in absolute value, was moved to -0.5.
C22_Witness ==
    /\ res.ret = "curved" /\ res.is_colliding
    /\ Center0(inp) # Center1(inp)
    /\ res.arc_adjusted < 0 /\ res.arc_adjusted > -500
    /\ res.arc = -500
    /\ res.start # res.end
    /\ ControlDistance2(res) + LengthTol >= ChordLength(res)

\* The point ti of a curved result, on the line through start and end.
ChordPoint(r) == get_point_between(r.start, r.end, Clamp(500 + r.arc, -SC, SC))

\* ti turned about the middle of the chord by turns * PI / 2.
Candidate(r, turns) ==
    rotate_point(ChordPoint(r), get_point_between(r.start, r.end, 500), (PI \div 2) * turns)

\* The candidate of +rotation and the candidate of -rotation of a call.
CandidatePlus(i, r) == Candidate(r, arrow_rot(r.angle_center, i.options.flip))

CandidateMinus(i, r) == Candidate(r, -arrow_rot(r.angle_center, i.options.flip))

\* The distance of p from the center of the end box of the call.
FromEndCenter(i, p) == get_distance(p, Center1(i))

\* C23: a curved result between boxes that do not collide has the candidate
\* of +rotation as its control point; between boxes that collide it has the
\* candidate farther from the end box's center, and the candidate of
\* +rotation when the two are equally far.
C23_ControlIsFartherCandidate ==
    res.ret = "curved" =>
        /\ ~res.is_colliding => res.control = CandidatePlus(inp, res)
        /\ res.is_colliding =>
               /\ res.control \in {CandidatePlus(inp, res), CandidateMinus(inp, res)}
               /\ FromEndCenter(inp, res.control) >= FromEndCenter(inp, CandidatePlus(inp, res))
               /\ FromEndCenter(inp, res.control) >= FromEndCenter(inp, CandidateMinus(inp, res))
               /\ (FromEndCenter(inp, CandidatePlus(inp, res))
                      = FromEndCenter(inp, CandidateMinus(inp, res))
                   => res.control = CandidatePlus(inp, res))

\* C23 happens: between colliding boxes the candidate of -rotation is farther
\* from the end box's center and is the control point returned.
C23_Witness ==
    /\ res.ret = "curved" /\ res.is_colliding
    /\ FromEndCenter(inp, CandidateMinus(inp, res)) > FromEndCenter(inp, CandidatePlus(inp, res))
    /\ res.control = CandidateMinus(inp, res)
    /\ res.control # CandidatePlus(inp, res)

\* The lengths v and w agree to within the tolerance of a length.
SameLength(v, w) == Abs(v - w) <= LengthTol

\* Twice |clamp(0.5 + arc, -1, 1) - 0.5| times the chord length of a result.
ArcDistance2(r) == Mul(Abs(2 * Clamp(500 + r.arc, -SC, SC) - SC), ChordLength(r))

\* C26: in every result (fallback, straight shortcut, curve) the control
\* point is as far from start as from end; in a curve its distance from the
\* middle of the chord is |clamp(0.5 + arc, -1, 1) - 0.5| times the chord
\* length.
C26_ControlOnBisector ==
    Returned(res) =>
        /\ SameLength(Between(res.control, res.start), Between(res.control, res.end))
        /\ res.ret = "curved" => SameLength(ControlDistance2(res), ArcDistance2(res))

\* C26 happens: a curve on a chord of positive length whose arc is not
\* clamped, with the control point off the chord and as far from start as
\* from end.
C26_Witness ==
    /\ res.ret = "curved"
    /\ res.start # res.end
    /\ res.arc # 0 /\ Abs(res.arc) < 500
    /\ ControlSide(res) # 0
    /\ ControlDistance2(res) > SC
    /\ SameLength(Between(res.control, res.start), Between(res.control, res.end))
    /\ SameLength(ControlDistance2(res), ArcDistance2(res))

\* C30: for boxes of positive width and height with distinct centers,
\* overlapping or not, and for every padding, the returned start lies in the
\* closed padded start rectangle and the returned end in the closed padded
\* end rectangle.
C30_AttachmentsInsideBoxes ==
    (PositiveSizes(inp) /\ Center0(inp) # Center1(inp) /\ Returned(res)) =>
        /\ InClosed(res.start, PaddedStart(inp))
        /\ InClosed(res.end, PaddedEnd(inp))

\* C30 happens: a curve between padded boxes of positive sizes that overlap,
\* with start and end in their closed padded rectangles and the end strictly
\* inside its own.
C30_Witness ==
    /\ PositiveSizes(inp) /\ Center0(inp) # Center1(inp)
    /\ inp.options.pad_end > 0
    /\ res.ret = "curved" /\ res.is_colliding
    /\ InClosed(res.start, PaddedStart(inp))
    /\ InClosed(res.end, PaddedEnd(inp))
    /\ ~OnBoundary(res.end, PaddedEnd(inp))

\* The sign of (p - o) . d + LengthTol for the ray of a call: negative when
\* p lies behind the origin of the ray.
AlongRay(call, p) ==
    SAdd(SAdd(SProd(p.x - RayOrigin(call.rect).x, get_delta(call.angle)[1]),
              SProd(p.y - RayOrigin(call.rect).y, get_delta(call.angle)[2])),
         SProd(LengthTol, SC)).s

\* C27: every point returned by get_ray_rounded_rectangle_intersection lies
\* in the forward direction of the ray, origin + t * direction with t >= 0,
\* for hits of a corner arc and of a straight side and for every corner
\* radius.
C27_HitsAreForward ==
    (util.fn = "get_ray_rounded_rectangle_intersection" /\ out.done) =>
        \A k \in 1..Len(out.value) : AlongRay(util, out.value[k]) >= 0

\* C24: segment_intersects_rect returns true exactly when the segment and
\* the closed rectangle have a point in common, also for a segment that
\* touches a corner, runs along a side or is collinear with one.
C24_TrueIffCommonPoint ==
    (util.fn = "segment_intersects_rect" /\ out.done) =>
        (out.value <=> SegmentMeetsRect(util.seg.start, util.seg.end, util.rect))

\* The segments p1-p2 and q1-q2 cross at a point interior to both.
SegmentsCross(p1, p2, q1, q2) ==
    /\ Turn(p1, p2, q1) * Turn(p1, p2, q2) = -1
    /\ Turn(q1, q2, p1) * Turn(q1, q2, p2) = -1

\* The segment p-q crosses a side of the rectangle b at a point interior to
\* both.
CrossesSide(p, q, b) ==
    \/ SegmentsCross(p, q, <<b.x, b.y>>, <<b.x + b.width, b.y>>)
    \/ SegmentsCross(p, q, <<b.x, b.y>>, <<b.x, b.y + b.height>>)
    \/ SegmentsCross(p, q, <<b.x + b.width, b.y>>, <<b.x + b.width, b.y + b.height>>)
    \/ SegmentsCross(p, q, <<b.x, b.y + b.height>>, <<b.x + b.width, b.y + b.height>>)

\* An end of the segment lies in the closed rectangle.
EndInRect(seg, b) ==
    \/ contains_point(b, seg.start[1], seg.start[2])
    \/ contains_point(b, seg.end[1], seg.end[2])

\* C24, amended: segment_intersects_rect returns true only when the segment
\* and the closed rectangle have a point in common, and it returns true
\* whenever an end of the segment lies in the closed rectangle or the segment
\* crosses a side at a point interior to both; a segment with both ends
\* outside that only touches a corner or runs along a side may be reported
\* as not intersecting.
C24_TrueOnlyIfCommonPointAndIfCrossing ==
    (util.fn = "segment_intersects_rect" /\ out.done) =>
        /\ out.value => SegmentMeetsRect(util.seg.start, util.seg.end, util.rect)
        /\ (EndInRect(util.seg, util.rect)
              \/ CrossesSide(util.seg.start, util.seg.end, util.rect)) => out.value

\* C24 happens: a segment with both ends outside the rectangle that crosses
\* a side was reported as intersecting.
C24_Witness ==
    /\ util.fn = "segment_intersects_rect" /\ out.done
    /\ ~EndInRect(util.seg, util.rect)
    /\ CrossesSide(util.seg.start, util.seg.end, util.rect)
    /\ out.value

\* The node elements of the page moved into the frame of the arena, where
\* the boxes of the source and of the target are handed to the solver.
InArenaFrame(pg) ==
    [pg EXCEPT !.nodes = [n \in NodeIds |->
        [pg.nodes[n] EXCEPT !.left = @ - pg.content.left, !.top = @ - pg.content.top]]]

\* The count of candidate k over the rectangles of the nodes positioned in
\* the frame of the route.
CountInArenaFrame(k) ==
    arrow_collision_count(build_quadtree(InArenaFrame(page), TheNodeIds, 1, <<>>),
        build_arrow_segments(last.candidates[k].route.start, last.candidates[k].route.control,
                             last.candidates[k].route.end))

\* C28: wherever the arena lies in the page, the rectangles of the index and
\* the segments of the route are in one frame: the count of each flip is the
\* count over the node rectangles positioned relative to the arena, as the
\* start and the end box of the route are.
C28_CountsInRouteFrame ==
    last.ret = "ok" =>
        \A k \in 1..2 : last.candidates[k].collisions = CountInArenaFrame(k)

\* The component is at rest: no render is due and no task is waiting.
EdgeAtRest == ~dirty /\ timers = 0

\* C29: once the layout no longer changes, a mounted EdgeRenderer recomputes
\* its route finitely often: the cycle of render, task and svg_data.set
\* comes to rest, whether the pass finds its elements or not (a panic ends
\* the program and with it the cycle).
C29_RecomputationStops == <>[](EdgeAtRest \/ Dead)

\* C25: GraphContent lays a (sub)graph at an even nesting depth out with
\* flex-row and one at an odd depth with flex-col, so that a subgraph and the
\* subgraph nested directly in it never get the same direction.
C25_DirectionAlternatesWithDepth ==
    (util.fn = "DotGraph" /\ out.done) =>
        \A k \in 1..Len(out.value) :
            out.value[k].flex_direction
                = IF out.value[k].depth % 2 = 0 THEN "flex-row" ELSE "flex-col"

====
